---- MODULE Spec2Model ----
(***************************************************************************)
(* The deployment engine of yadda: the deploy and rollback pipelines of    *)
(* lib/deployment-tasks.js over the deployment history table of            *)
(* lib/deployment-center.js and the ECS calls of lib/aws-tools.js.         *)
(*                                                                         *)
(* A run is one invocation of exports.deploy or exports.rollback; its      *)
(* promise chain is a program counter, every remote call has a             *)
(* nondeterministic outcome (the callback's err or data).  The calls of    *)
(* the image pipeline and of runOnDeployJobs are made in one step and call *)
(* back in another; the other calls, made one at a time, are one step.     *)
(***************************************************************************)
EXTENDS Integers, Sequences, FiniteSets, TLC

\* ------------------------------------------------------------------ bounds
\* Number of deploys that may be started (each takes a fresh Date.now()).
MaxDeploys == 2

\* ------------------------------------------------------------- value sets
Procs == {1, 2}
Environments == {"prod", "dev"}
ServiceIds == <<"A", "B">>
JobIds == <<"A", "J", "K">>
NoArn == 0
NoCount == -1
Nil == "nil"

\* A Deployment record of the history table; deploymentTimestamp 0 stands
\* for undefined (no item).
NoDeployment ==
    [deploymentTimestamp |-> 0, environment |-> Nil, active |-> 0,
     tasks |-> <<>>, services |-> <<>>, parentDeployment |-> 0]

\* ------------------------------------------------------------ manifests
\* The values of the active attribute of an entry of a manifest, as written in
\* the manifest; "undefined" stands for an entry without the attribute.
ActiveValues == {"true", "false", "undefined", "null", "0"}

ServiceTemplate(active, hasTaskTemplate, cluster, initialCount) ==
    [active |-> IF active THEN "true" ELSE "false", hasTaskTemplate |-> hasTaskTemplate, cluster |-> cluster,
     initialCount |-> initialCount, runOnDeploy |-> Nil, schedule |-> Nil,
     taskDefinitionArn |-> NoArn]

JobTemplate(active, hasTaskTemplate, cluster, runOnDeploy) ==
    [active |-> IF active THEN "true" ELSE "false", hasTaskTemplate |-> hasTaskTemplate, cluster |-> cluster,
     initialCount |-> 0, runOnDeploy |-> runOnDeploy, schedule |-> Nil,
     taskDefinitionArn |-> NoArn]

\* The cron statements jobs are given: every minute, every other minute.
EveryMinute == "* * * * *"
EveryOtherMinute == "*/2 * * * *"

Scheduled(jobInfo, schedule) == [jobInfo EXCEPT !.schedule = schedule]

\* The entry with the active attribute as given.
WithActive(taskInfo, active) == [taskInfo EXCEPT !.active = active]

GoodService == ServiceTemplate(TRUE, TRUE, "c1", 1)
NoServices == [k \in {} |-> GoodService]

\* The merged manifests a deploy may be given (cli/helpers.js setup()); the
\* initialCount of a service is 0, 1, 2 or not given (NoCount).  The
\* services and the jobs of a manifest are two dictionaries, so a job may
\* carry the name of a service ("A" below).
ImagesAndJobs ==
    [services |-> [k \in {"A", "B"} |->
                     IF k = "B" THEN ServiceTemplate(TRUE, TRUE, "c2", 0)
                     ELSE GoodService],
     jobs |-> [k \in {"J", "K"} |->
                 IF k = "J"
                 THEN Scheduled(JobTemplate(TRUE, TRUE, "c1", "before"), EveryMinute)
                 ELSE Scheduled(JobTemplate(TRUE, TRUE, "c1", "after"), EveryOtherMinute)],
     images |-> <<"i1", "i2">>, updateOnly |-> {Nil}]

Configs ==
    { ImagesAndJobs,
      [services |-> [k \in {"A"} |-> ServiceTemplate(TRUE, TRUE, "c1", 2)],
       jobs |-> [k \in {"J", "K"} |->
                   WithActive(JobTemplate(TRUE, TRUE, "c1", "after"),
                              IF k = "J" THEN "undefined" ELSE "null")],
       images |-> <<"i1">>, updateOnly |-> {Nil}],
      [services |-> [k \in {"A", "B"} |-> GoodService],
       jobs |-> [k \in {"A", "J"} |->
                   WithActive(JobTemplate(TRUE, TRUE, "c1", Nil),
                              IF k = "J" THEN "0" ELSE "true")],
       images |-> <<"i1">>, updateOnly |-> {"B"}],
      [services |-> [k \in {"A", "B"} |->
                       IF k = "B" THEN ServiceTemplate(TRUE, FALSE, "c1", 1)
                       ELSE GoodService],
       jobs |-> NoServices,
       images |-> <<"i1">>, updateOnly |-> {Nil}],
      [services |-> [k \in {"A"} |-> GoodService],
       jobs |-> [k \in {"J"} |-> JobTemplate(TRUE, FALSE, "c1", Nil)],
       images |-> <<>>, updateOnly |-> {Nil}],
      [services |-> [k \in {"A", "B"} |->
                       IF k = "B" THEN ServiceTemplate(FALSE, TRUE, "c1", 1)
                       ELSE ServiceTemplate(TRUE, TRUE, "c1", NoCount)],
       jobs |-> [k \in {"A", "J"} |->
                   JobTemplate(k = "A", TRUE, "c1", IF k = "A" THEN "before" ELSE Nil)],
       images |-> <<>>, updateOnly |-> {Nil}] }

\* The manifests of each environment: "dev" is given one small manifest, of a
\* service and a job that runs every minute.
Manifests(env) ==
    IF env = "dev"
    THEN {[services |-> [k \in {"A"} |-> GoodService],
           jobs |-> [k \in {"J"} |->
                       Scheduled(JobTemplate(TRUE, TRUE, "c1", Nil), EveryMinute)],
           images |-> <<>>, updateOnly |-> {Nil}]}
    ELSE Configs

\* ---------------------------------------------------------------- state
VARIABLES
    store,      \* the deployment history table: deploymentTimestamp -> item
    clock,      \* Date.now() of the latest started deploy
    taskDefinitions, \* the task definitions registered with ECS; the arn of
                \* a task definition is its position
    run,        \* per process: the options object and position of its run
    written     \* history: the item of each key as it was put
                \* (run[p].storeAtStart, run[p].storeAtRead and run[p].given
                \* are history as well: the table as the run found it and
                \* as it was when the run read the current deployment, and
                \* the manifest the run was given)

vars == <<store, clock, taskDefinitions, run, written>>

Timestamps == 1 .. MaxDeploys

IdleRun ==
    [kind |-> Nil, pc |-> "idle", environment |-> Nil, deploymentTimestamp |-> 0,
     services |-> NoServices, jobs |-> NoServices, images |-> <<>>,
     imageT |-> {}, updateOnly |-> {Nil},
     currentDeployment |-> NoDeployment, parentDeployment |-> NoDeployment,
     serviceTasks |-> <<>>, jobTasks |-> <<>>,
     idx |-> 0, results |-> <<>>, serviceInfo |-> Nil, removed |-> <<>>,
     deployment |-> NoDeployment, pending |-> {}, calls |-> <<>>,
     outcome |-> Nil, error |-> Nil, result |-> NoDeployment,
     job |-> Nil, logged |-> Nil, exitStatus |-> NoCount,
     time |-> 0, LastEvaluatedKey |-> 0, order |-> "ascending",
     storeAtStart |-> <<>>, storeAtRead |-> <<>>, given |-> [services |-> NoServices, jobs |-> NoServices]]

Init ==
    /\ store = [t \in Timestamps |-> NoDeployment]
    /\ clock = 0
    /\ taskDefinitions = <<>>
    /\ run = [p \in Procs |-> IdleRun]
    /\ written = [t \in Timestamps |-> NoDeployment]

\* ------------------------------------------------------------- helpers
\* Keys of an object in iteration order (lodash iterates own keys in order).
Keys(order, obj) == SelectSeq(order, LAMBDA k : k \in DOMAIN obj)

Range(s) == {s[i] : i \in DOMAIN s}

\* A recorded remote call of a run.
Call(op, id, cluster, arn, count, ok) ==
    [op |-> op, id |-> id, cluster |-> cluster, arn |-> arn, count |-> count,
     services |-> <<>>, status |-> IF ok THEN "ok" ELSE "error"]

\* A call that has been issued and has not called back yet.
Pending(call) == [call EXCEPT !.status = "pending"]

Logged(r, call) == [r EXCEPT !.calls = Append(@, call)]

\* results[key] = result of the item just processed (promiseMap line 69).
Put(results, key, value) ==
    [k \in DOMAIN results \cup {key} |-> IF k = key THEN value ELSE results[k]]

Reject(r, err) == [r EXCEPT !.pc = "rejected", !.outcome = "rejected", !.error = err]

Step(p, r) == run' = [run EXCEPT ![p] = r]

\* Single-writer use: a run starts only when no other run is in flight.
NoOtherRun(p) == \A q \in Procs \ {p} : run[q].pc = "idle"

\* A command is taken by the first process that is free; which free process
\* takes it makes no difference to the run.
FirstIdle(p) == \A q \in Procs : q < p => run[q].pc # "idle"

\* ------------------------------------------------------- start of a run
\* exports.deploy is called with the options of a manifest; the deployment
\* takes the time of the call as its deploymentTimestamp.
Deploy(p, env, cfg) ==
    /\ run[p].pc = "idle"
    /\ FirstIdle(p)
    /\ clock < MaxDeploys
    /\ clock' = clock + 1
    /\ Step(p, [IdleRun EXCEPT !.kind = "deploy", !.pc = "setup",
                               !.environment = env, !.storeAtStart = store,
                               !.given = [services |-> cfg.services, jobs |-> cfg.jobs],
                               !.deploymentTimestamp = clock + 1,
                               !.services = cfg.services, !.jobs = cfg.jobs,
                               !.images = cfg.images,
                               !.updateOnly = cfg.updateOnly])
    /\ UNCHANGED <<store, taskDefinitions, written>>

StartDeploy(p, env, cfg) == NoOtherRun(p) /\ Deploy(p, env, cfg)

\* A deploy of the small manifest that starts whatever the other process is
\* doing.
StartOverlappingDeploy(p) ==
    \E cfg \in Manifests("dev") : Deploy(p, "dev", cfg)

\* exports.rollback is called for an environment.
Rollback(p, env) ==
    /\ run[p].pc = "idle"
    /\ FirstIdle(p)
    /\ Step(p, [IdleRun EXCEPT !.kind = "rollback", !.pc = "setup",
                               !.environment = env, !.storeAtStart = store])
    /\ UNCHANGED <<store, clock, taskDefinitions, written>>

StartRollback(p, env) == NoOtherRun(p) /\ Rollback(p, env)

\* Commands are given one at a time, and the scheduler is no command: a deploy
\* or a rollback of the small manifest's environment starts while no other
\* command is under way, whatever a tick of the scheduler is doing.
NoOtherCommand(p) == \A q \in Procs \ {p} : run[q].kind \in {Nil, "runCronJobs"}

StartRacedDeploy(p) ==
    NoOtherCommand(p) /\ \E cfg \in Manifests("dev") : Deploy(p, "dev", cfg)

StartRacedRollback(p) == NoOtherCommand(p) /\ Rollback(p, "dev")

\* The job names run-job may be given: the name of a job of some manifests,
\* and a name that a service carries and a job may carry as well.
JobNames == {"K", "A"}

\* exports.runJob
StartRunJob(p, env, jobName) ==
    /\ run[p].pc = "idle"
    /\ FirstIdle(p)
    /\ NoOtherRun(p)
    /\ Step(p, [IdleRun EXCEPT !.kind = "runJob", !.pc = "setup",
                               !.environment = env, !.storeAtStart = store,
                               !.job = jobName])
    /\ UNCHANGED <<store, clock, taskDefinitions, written>>

SetupDeploymentCenter(p) ==
    /\ run[p].pc = "setup"
    /\ \E ok \in BOOLEAN :
         LET r == Logged(run[p], Call("describeStacks", Nil, Nil, NoArn, NoCount, ok))
         IN  Step(p, IF ok THEN [r EXCEPT !.pc = "getCurrentDeployment"]
                     ELSE Reject(r, "describeStacks"))
    /\ UNCHANGED <<store, clock, taskDefinitions, written>>

\* Items of the DeploymentStatus index with active = 1 in the environment.
ActiveDeployments(env) ==
    {t \in DOMAIN store : /\ store[t].deploymentTimestamp # 0
                          /\ store[t].active = 1
                          /\ store[t].environment = env}

\* Mutant of GetCurrentDeployedVersion: the environment is not asked for.
GetCurrentDeployedVersionOfAnyEnvironment(env) ==
    IF \A e \in Environments : ActiveDeployments(e) = {} THEN {NoDeployment}
    ELSE {store[t] : t \in UNION {ActiveDeployments(e) : e \in Environments}}

\* _.head(results.Items): the index does not order items of equal key.
GetCurrentDeployedVersion(env) ==
    IF ActiveDeployments(env) = {} THEN {NoDeployment}
    ELSE {store[t] : t \in ActiveDeployments(env)}

GetCurrentDeployment(p) ==
    /\ run[p].pc = "getCurrentDeployment"
    /\ \/ \E cur \in GetCurrentDeployedVersion(run[p].environment) :
            Step(p, [Logged(run[p], Call("query", Nil, Nil, NoArn, NoCount, TRUE))
                       EXCEPT !.currentDeployment = cur,
                              !.storeAtRead = store,
                              !.pc = CASE run[p].kind = "deploy" -> "pruneTasks"
                                       [] run[p].kind = "rollback" -> "checkCurrentDeployment"
                                       [] run[p].kind = "runJob" -> "runJob"])
       \/ Step(p, Reject(Logged(run[p], Call("query", Nil, Nil, NoArn, NoCount, FALSE)),
                         "query"))
    /\ UNCHANGED <<store, clock, taskDefinitions, written>>

\* ----------------------------------------------------------- pruneTasks
\* Mutant of isActivePredicate: every entry counts as active.
isActivePredicateAll(taskInfo) == TRUE

\* _.get(object, path, defaultValue): the default stands in for undefined
\* only.
Get(value, defaultValue) == IF value = "undefined" THEN defaultValue ELSE value

\* Mutant of Truthy: everything but false counts.
TruthyButFalse(value) == value # "false"

\* The truthiness _.pickBy tests the predicate's value for.
Truthy(value) == value \notin {"false", "null", "0", "undefined"}

isActivePredicate(taskInfo) == Truthy(Get(taskInfo.active, "true"))

\* _.pickBy(obj, isActivePredicate)
ActiveOnly(obj) == [k \in {j \in DOMAIN obj : isActivePredicate(obj[j])} |-> obj[k]]

PruneTasks(p) ==
    /\ run[p].pc = "pruneTasks"
    /\ Step(p, [run[p] EXCEPT !.services = ActiveOnly(@),
                              !.jobs = ActiveOnly(@),
                              !.pc = "buildImages", !.idx = 1, !.results = <<>>])
    /\ UNCHANGED <<store, clock, taskDefinitions, written>>

\* ---------------------------------------------------------- buildImages
\* Q.ninvoke: the call is made and its promise is pending.
InFlight(r, call) ==
    [r EXCEPT !.calls = Append(@, Pending(call)),
              !.pending = @ \cup {Len(r.calls) + 1}]

\* The callback of call i is invoked, with an error or not.
Returned(r, i, ok) ==
    [r EXCEPT !.calls[i].status = IF ok THEN "ok" ELSE "error",
              !.pending = @ \ {i}]

\* One item of the promiseMap of buildImages: the repository of the next
\* image is looked up.
BuildImage(p) ==
    LET r == run[p]
        imageId == r.images[r.idx]
    IN  /\ r.pc = "buildImages"
        /\ r.idx <= Len(r.images)
        /\ Step(p, [InFlight(r, Call("findOrCreateECRRepository", imageId, Nil,
                                     NoArn, NoCount, TRUE))
                      EXCEPT !.pc = "findOrCreateECRRepository"])
        /\ UNCHANGED <<store, clock, taskDefinitions, written>>

\* findOrCreateECRRepository calls back: the image is built.
RepositoryFound(p) ==
    LET r == run[p]
        imageId == r.images[r.idx]
    IN  /\ r.pc = "findOrCreateECRRepository"
        /\ \E i \in r.pending :
              \/ Step(p, Reject(Returned(r, i, FALSE), "findOrCreateECRRepository"))
              \/ Step(p, [InFlight(Returned(r, i, TRUE),
                                   Call("build", imageId, Nil, NoArn, NoCount, TRUE))
                            EXCEPT !.pc = "build"])
        /\ UNCHANGED <<store, clock, taskDefinitions, written>>

\* Mutant of ImageBuilt: a failed build leaves its image without tag and the
\* next image is taken up.
ImageBuiltLenient(p) ==
    LET r == run[p]
        imageId == r.images[r.idx]
    IN  /\ r.pc = "build"
        /\ \E i \in r.pending :
              \/ Step(p, [Returned(r, i, FALSE) EXCEPT !.idx = @ + 1,
                                                      !.pc = "buildImages"])
              \/ Step(p, [Returned(r, i, TRUE)
                            EXCEPT !.results = Put(@, imageId, 1), !.idx = @ + 1,
                                   !.pc = "buildImages"])
        /\ UNCHANGED <<store, clock, taskDefinitions, written>>

\* docker build calls back: the item resolves with the tag t.
ImageBuilt(p) ==
    LET r == run[p]
        imageId == r.images[r.idx]
    IN  /\ r.pc = "build"
        /\ \E i \in r.pending :
              \/ Step(p, Reject(Returned(r, i, FALSE), "build"))
              \/ Step(p, [Returned(r, i, TRUE)
                            EXCEPT !.results = Put(@, imageId, 1), !.idx = @ + 1,
                                   !.pc = "buildImages"])
        /\ UNCHANGED <<store, clock, taskDefinitions, written>>

\* Mutant of BuildImagesDone: the tags are not stored on the images.
BuildImagesDoneWithoutTags(p) ==
    LET r == run[p]
    IN  /\ r.pc = "buildImages"
        /\ r.idx > Len(r.images)
        /\ Step(p, [r EXCEPT !.imageT = {}, !.pc = "getAuthorizationToken"])
        /\ UNCHANGED <<store, clock, taskDefinitions, written>>

\* The continuation of buildImages: every built image gets its tag t.
BuildImagesDone(p) ==
    LET r == run[p]
    IN  /\ r.pc = "buildImages"
        /\ r.idx > Len(r.images)
        /\ Step(p, [r EXCEPT !.imageT = DOMAIN r.results,
                             !.pc = "getAuthorizationToken"])
        /\ UNCHANGED <<store, clock, taskDefinitions, written>>

\* ------------------------------------------------------ pushImagesToECR
GetAuthorizationToken(p) ==
    LET r == run[p]
        auth(ok) == Call("getAuthorizationToken", Nil, Nil, NoArn, NoCount, ok)
    IN  /\ r.pc = "getAuthorizationToken"
        /\ \/ Step(p, Reject(Logged(r, auth(FALSE)), "getAuthorizationToken"))
           \/ Step(p, [Logged(r, auth(TRUE)) EXCEPT !.pc = "pushImages",
                                                     !.idx = 1, !.results = <<>>])
        /\ UNCHANGED <<store, clock, taskDefinitions, written>>

\* Mutant of PushImage: the push is started and the next image is taken up at
\* once.
PushImageDetached(p) ==
    LET r == run[p]
        imageId == r.images[r.idx]
    IN  /\ r.pc = "pushImages"
        /\ r.idx <= Len(r.images)
        /\ Step(p, IF imageId \in r.imageT
                   THEN [InFlight(r, Call("pushImage", imageId, Nil, NoArn, NoCount, TRUE))
                           EXCEPT !.idx = @ + 1]
                   ELSE [r EXCEPT !.idx = @ + 1])
        /\ UNCHANGED <<store, clock, taskDefinitions, written>>

\* One item of the promiseMap of pushImagesToECR: an image that has a tag t
\* is pushed.
PushImage(p) ==
    LET r == run[p]
        imageId == r.images[r.idx]
    IN  /\ r.pc = "pushImages"
        /\ r.idx <= Len(r.images)
        /\ Step(p, IF imageId \in r.imageT
                   THEN [InFlight(r, Call("pushImage", imageId, Nil, NoArn, NoCount, TRUE))
                           EXCEPT !.pc = "pushImage"]
                   ELSE [r EXCEPT !.idx = @ + 1])
        /\ UNCHANGED <<store, clock, taskDefinitions, written>>

\* docker push calls back.
ImagePushed(p) ==
    LET r == run[p]
    IN  /\ r.pc = "pushImage"
        /\ \E i \in r.pending :
              \/ Step(p, Reject(Returned(r, i, FALSE), "pushImage"))
              \/ Step(p, [Returned(r, i, TRUE) EXCEPT !.idx = @ + 1,
                                                     !.pc = "pushImages"])
        /\ UNCHANGED <<store, clock, taskDefinitions, written>>

PushImagesDone(p) ==
    LET r == run[p]
    IN  /\ r.pc = "pushImages"
        /\ r.idx > Len(r.images)
        /\ Step(p, [r EXCEPT !.pc = "serviceTaskDefinitions",
                             !.idx = 1, !.results = <<>>])
        /\ UNCHANGED <<store, clock, taskDefinitions, written>>

\* ------------------------------------------------ updateTaskDefinitions
\* Mutant of shouldUpdate: a task that the current deployment has no task for
\* is updated as well.
shouldUpdateNew(r, taskId) ==
    \/ r.updateOnly = {Nil}
    \/ taskId \in r.updateOnly
    \/ \A i \in DOMAIN r.currentDeployment.tasks :
          r.currentDeployment.tasks[i].taskId # taskId

shouldUpdate(r, taskId) == r.updateOnly = {Nil} \/ taskId \in r.updateOnly

\* The arn of the first task of the current deployment with this taskId,
\* undefined when there is none.
ReusedArn(r, taskId) ==
    LET matching == SelectSeq(r.currentDeployment.tasks,
                              LAMBDA task : task.taskId = taskId)
    IN  IF matching = <<>> THEN NoArn ELSE Head(matching).taskDefinitionArn

\* The payload registered for a task: its family is AppName-taskId-environment.
createTaskDefinition(r, taskId) == [family |-> <<taskId, r.environment>>]

\* The dictionary createTaskDefinitions is mapping over, with its key order.
DefinitionTasks(r) == IF r.pc = "serviceTaskDefinitions" THEN r.services ELSE r.jobs
DefinitionKeys(r) ==
    IF r.pc = "serviceTaskDefinitions" THEN Keys(ServiceIds, r.services)
    ELSE Keys(JobIds, r.jobs)

\* Mutant of CreateTaskDefinition: a failed registration leaves the task
\* without arn and the next task is taken up.
CreateTaskDefinitionLenient(p) ==
    LET r == run[p]
        taskId == DefinitionKeys(r)[r.idx]
        taskInfo == DefinitionTasks(r)[taskId]
        register(arn, ok) == Call("registerTaskDefinition", taskId, Nil, arn, NoCount, ok)
    IN  /\ r.pc \in {"serviceTaskDefinitions", "jobTaskDefinitions"}
        /\ r.idx <= Len(DefinitionKeys(r))
        /\ IF shouldUpdate(r, taskId)
           THEN IF ~taskInfo.hasTaskTemplate
                THEN /\ Step(p, Reject(r, "missing a task template"))
                     /\ UNCHANGED taskDefinitions
                ELSE \/ /\ Step(p, [Logged(r, register(NoArn, FALSE))
                                      EXCEPT !.results = Put(@, taskId, NoArn),
                                             !.idx = @ + 1])
                        /\ UNCHANGED taskDefinitions
                     \/ /\ Step(p, [Logged(r, register(Len(taskDefinitions) + 1, TRUE))
                                      EXCEPT !.results =
                                                 Put(@, taskId, Len(taskDefinitions) + 1),
                                             !.idx = @ + 1])
                        /\ taskDefinitions' =
                               Append(taskDefinitions, createTaskDefinition(r, taskId))
           ELSE /\ Step(p, [r EXCEPT !.results = Put(@, taskId, ReusedArn(r, taskId)),
                                     !.idx = @ + 1])
                /\ UNCHANGED taskDefinitions
        /\ UNCHANGED <<store, clock, written>>

\* One item of the promiseMap of createTaskDefinitions.
CreateTaskDefinition(p) ==
    LET r == run[p]
        taskId == DefinitionKeys(r)[r.idx]
        taskInfo == DefinitionTasks(r)[taskId]
        register(arn, ok) == Call("registerTaskDefinition", taskId, Nil, arn, NoCount, ok)
    IN  /\ r.pc \in {"serviceTaskDefinitions", "jobTaskDefinitions"}
        /\ r.idx <= Len(DefinitionKeys(r))
        /\ IF shouldUpdate(r, taskId)
           THEN IF ~taskInfo.hasTaskTemplate
                THEN /\ Step(p, Reject(r, "missing a task template"))
                     /\ UNCHANGED taskDefinitions
                ELSE \/ /\ Step(p, Reject(Logged(r, register(NoArn, FALSE)),
                                          "registerTaskDefinition"))
                        /\ UNCHANGED taskDefinitions
                     \/ /\ Step(p, [Logged(r, register(Len(taskDefinitions) + 1, TRUE))
                                      EXCEPT !.results =
                                                 Put(@, taskId, Len(taskDefinitions) + 1),
                                             !.idx = @ + 1])
                        /\ taskDefinitions' =
                               Append(taskDefinitions, createTaskDefinition(r, taskId))
           ELSE /\ Step(p, [r EXCEPT !.results = Put(@, taskId, ReusedArn(r, taskId)),
                                     !.idx = @ + 1])
                /\ UNCHANGED taskDefinitions
        /\ UNCHANGED <<store, clock, written>>

WithArns(tasks, taskDefinitionArns) ==
    [k \in DOMAIN tasks |->
        IF k \in DOMAIN taskDefinitionArns
        THEN [tasks[k] EXCEPT !.taskDefinitionArn = taskDefinitionArns[k]]
        ELSE tasks[k]]

\* The continuation of createTaskDefinitions: the arns are stored on the tasks.
CreateTaskDefinitionsDone(p) ==
    LET r == run[p]
    IN  /\ r.pc \in {"serviceTaskDefinitions", "jobTaskDefinitions"}
        /\ r.idx > Len(DefinitionKeys(r))
        /\ Step(p, IF r.pc = "serviceTaskDefinitions"
                   THEN [r EXCEPT !.services = WithArns(@, r.results),
                                  !.pc = "jobTaskDefinitions",
                                  !.idx = 1, !.results = <<>>]
                   ELSE [r EXCEPT !.jobs = WithArns(@, r.results),
                                  !.pc = "buildDeployableTaskItems",
                                  !.idx = 1, !.results = <<>>])
        /\ UNCHANGED <<store, clock, taskDefinitions, written>>

\* ---------------------------------------------- buildDeployableTaskItems
DeployableTaskItem(taskId, taskType, info, env) ==
    [taskId |-> taskId, taskType |-> taskType,
     serviceName |-> IF taskType = "service" THEN <<taskId, env>> ELSE <<>>,
     ecsCluster |-> info.cluster, runOnDeploy |-> info.runOnDeploy,
     schedule |-> IF taskType = "job" THEN info.schedule ELSE Nil,
     taskDefinitionArn |-> info.taskDefinitionArn]

hasTaskDefinitionArn(info) == info.taskDefinitionArn # NoArn

\* Mutant of WithArnOnly: the entries without arn are kept.
WithArnOnlyAll(obj) == obj

\* _.pickBy(obj, function(info) { return info.taskDefinitionArn; })
WithArnOnly(obj) == [k \in {j \in DOMAIN obj : hasTaskDefinitionArn(obj[j])} |-> obj[k]]

RECURSIVE MapItems(_, _, _, _)
MapItems(keys, obj, taskType, env) ==
    IF keys = <<>> THEN <<>>
    ELSE <<DeployableTaskItem(Head(keys), taskType, obj[Head(keys)], env)>>
         \o MapItems(Tail(keys), obj, taskType, env)

BuildServiceTasks(r) ==
    MapItems(Keys(ServiceIds, WithArnOnly(r.services)),
             r.services, "service", r.environment)

BuildJobTasks(r) ==
    MapItems(Keys(JobIds, WithArnOnly(r.jobs)),
             r.jobs, "job", r.environment)

\* Mutant of BuildDeployableTaskItems: the entries without arn are taken out
\* of the options as well.
BuildDeployableTaskItemsPruning(p) ==
    LET r == run[p]
    IN  /\ r.pc = "buildDeployableTaskItems"
        /\ Step(p, [r EXCEPT !.serviceTasks = BuildServiceTasks(r),
                             !.jobTasks = BuildJobTasks(r),
                             !.services = WithArnOnly(@),
                             !.jobs = WithArnOnly(@),
                             !.pc = "updateServices", !.idx = 1, !.results = <<>>])
        /\ UNCHANGED <<store, clock, taskDefinitions, written>>

BuildDeployableTaskItems(p) ==
    LET r == run[p]
    IN  /\ r.pc = "buildDeployableTaskItems"
        /\ Step(p, [r EXCEPT !.serviceTasks = BuildServiceTasks(r),
                             !.jobTasks = BuildJobTasks(r),
                             !.pc = "updateServices", !.idx = 1, !.results = <<>>])
        /\ UNCHANGED <<store, clock, taskDefinitions, written>>

\* -------------------------------------------------------- updateServices
DescribeOutcomes == {"error", "undefined", "ACTIVE", "INACTIVE"}

\* Mutant of DescribeService: a failed describe is caught and the next service
\* is taken up.
DescribeServiceIsolated(p) ==
    LET r == run[p]
        serviceTask == r.serviceTasks[r.idx]
        describe(ok) == Call("describeService", serviceTask.taskId,
                             serviceTask.ecsCluster, NoArn, NoCount, ok)
    IN  /\ r.pc = "updateServices"
        /\ r.idx <= Len(r.serviceTasks)
        /\ \E status \in {"error", "undefined", "ACTIVE", "INACTIVE"} :
             Step(p, IF status = "error"
                     THEN [Logged(r, describe(FALSE)) EXCEPT !.idx = @ + 1]
                     ELSE [Logged(r, describe(TRUE)) EXCEPT !.serviceInfo = status,
                                                           !.pc = "describedService"])
        /\ UNCHANGED <<store, clock, taskDefinitions, written>>

\* describeService of the next desired service.
DescribeService(p) ==
    LET r == run[p]
        serviceTask == r.serviceTasks[r.idx]
        describe(ok) == Call("describeService", serviceTask.taskId,
                             serviceTask.ecsCluster, NoArn, NoCount, ok)
    IN  /\ r.pc = "updateServices"
        /\ r.idx <= Len(r.serviceTasks)
        /\ \E status \in DescribeOutcomes :
             Step(p, IF status = "error"
                     THEN Reject(Logged(r, describe(FALSE)), "Error updating service")
                     ELSE [Logged(r, describe(TRUE)) EXCEPT !.serviceInfo = status,
                                                           !.pc = "describedService"])
        /\ UNCHANGED <<store, clock, taskDefinitions, written>>

\* desiredCount: serviceTemplate.initialCount || 1 (NoCount stands for an
\* initialCount that is not given; undefined and 0 are both falsy)
DesiredCount(serviceTemplate) ==
    IF serviceTemplate.initialCount \in {NoCount, 0} THEN 1
    ELSE serviceTemplate.initialCount

\* Mutant of ServiceCall: updateService carries the count of the template.
ServiceCallScaling(r, serviceTask, ok) ==
    Call(IF r.serviceInfo = "ACTIVE" THEN "updateService" ELSE "createService",
         serviceTask.taskId, serviceTask.ecsCluster, serviceTask.taskDefinitionArn,
         DesiredCount(r.services[serviceTask.taskId]), ok)

\* The call issued for a described service: updateService when it is ACTIVE,
\* createService otherwise.
ServiceCall(r, serviceTask, ok) ==
    IF r.serviceInfo = "ACTIVE"
    THEN Call("updateService", serviceTask.taskId, serviceTask.ecsCluster,
              serviceTask.taskDefinitionArn, NoCount, ok)
    ELSE Call("createService", serviceTask.taskId, serviceTask.ecsCluster,
              serviceTask.taskDefinitionArn,
              DesiredCount(r.services[serviceTask.taskId]), ok)

\* Mutant of CreateOrUpdateService: a failed create or update is caught and the
\* next service is taken up.
CreateOrUpdateServiceIsolated(p) ==
    LET r == run[p]
        serviceTask == r.serviceTasks[r.idx]
    IN  /\ r.pc = "describedService"
        /\ \E ok \in BOOLEAN :
             Step(p, [Logged(r, ServiceCall(r, serviceTask, ok))
                        EXCEPT !.pc = "updateServices", !.idx = @ + 1,
                               !.serviceInfo = Nil])
        /\ UNCHANGED <<store, clock, taskDefinitions, written>>

CreateOrUpdateService(p) ==
    LET r == run[p]
        serviceTask == r.serviceTasks[r.idx]
    IN  /\ r.pc = "describedService"
        /\ \/ Step(p, Reject(Logged(r, ServiceCall(r, serviceTask, FALSE)),
                             "Error updating service"))
           \/ Step(p, [Logged(r, ServiceCall(r, serviceTask, TRUE))
                         EXCEPT !.pc = "updateServices", !.idx = @ + 1,
                                !.serviceInfo = Nil])
        /\ UNCHANGED <<store, clock, taskDefinitions, written>>

\* Services of the current deployment that are not desired any more.
servicesRemovedInThisDeployment(r) ==
    SelectSeq(r.currentDeployment.tasks,
              LAMBDA task : /\ task.taskType = "service"
                            /\ \A i \in DOMAIN r.serviceTasks :
                                  r.serviceTasks[i].taskId # task.taskId)

UpdateServicesDone(p) ==
    LET r == run[p]
    IN  /\ r.pc = "updateServices"
        /\ r.idx > Len(r.serviceTasks)
        /\ Step(p, [r EXCEPT !.removed = servicesRemovedInThisDeployment(r),
                             !.pc = "removeServices", !.idx = 1])
        /\ UNCHANGED <<store, clock, taskDefinitions, written>>

\* Mutant of DeleteService: the service is deleted whether or not the scale to
\* zero succeeded.
DeleteServiceUnscaled(p) ==
    LET r == run[p]
        task == r.removed[r.idx]
        scale(ok) == Call("updateService", task.taskId, task.ecsCluster, NoArn, 0, ok)
        delete(ok) == Call("deleteService", task.taskId, task.ecsCluster, NoArn,
                           NoCount, ok)
    IN  /\ r.pc = "removeServices"
        /\ r.idx <= Len(r.removed)
        /\ \E scaled \in BOOLEAN :
              \/ Step(p, Reject(Logged(Logged(r, scale(scaled)), delete(FALSE)),
                                "deleteService"))
              \/ Step(p, [Logged(Logged(r, scale(scaled)), delete(TRUE))
                            EXCEPT !.idx = @ + 1])
        /\ UNCHANGED <<store, clock, taskDefinitions, written>>

\* ContainerService.deleteService: scale to zero, then delete.
DeleteService(p) ==
    LET r == run[p]
        task == r.removed[r.idx]
        scale(ok) == Call("updateService", task.taskId, task.ecsCluster, NoArn, 0, ok)
        delete(ok) == Call("deleteService", task.taskId, task.ecsCluster, NoArn,
                           NoCount, ok)
    IN  /\ r.pc = "removeServices"
        /\ r.idx <= Len(r.removed)
        /\ \/ Step(p, Reject(Logged(r, scale(FALSE)), "Error Deleting Service"))
           \/ Step(p, Reject(Logged(Logged(r, scale(TRUE)), delete(FALSE)),
                             "deleteService"))
           \/ Step(p, [Logged(Logged(r, scale(TRUE)), delete(TRUE))
                         EXCEPT !.idx = @ + 1])
        /\ UNCHANGED <<store, clock, taskDefinitions, written>>

\* Mutant of RemoveServicesDone: updateServices ends with a stability wait.
RemoveServicesDoneWaiting(p) ==
    LET r == run[p]
        wait == Call("waitForServicesStable", Nil, "c1", NoArn, NoCount, TRUE)
    IN  /\ r.pc = "removeServices"
        /\ r.idx > Len(r.removed)
        /\ Step(p, [Logged(r, wait)
                      EXCEPT !.pc = IF r.kind = "deploy" THEN "finalizeDeployment"
                                    ELSE "finalizeRollback"])
        /\ UNCHANGED <<store, clock, taskDefinitions, written>>

\* updateServices resolves: the chain moves on to the finalizer.
RemoveServicesDone(p) ==
    LET r == run[p]
    IN  /\ r.pc = "removeServices"
        /\ r.idx > Len(r.removed)
        /\ Step(p, [r EXCEPT !.pc = IF r.kind = "deploy" THEN "finalizeDeployment"
                                    ELSE "finalizeRollback"])
        /\ UNCHANGED <<store, clock, taskDefinitions, written>>

\* ---------------------------------------------------- finalizeDeployment
\* Mutant of SetActive: the flag written is always 1.
SetActiveAlwaysOne(items, deploymentTimestamp, active) ==
    [items EXCEPT ![deploymentTimestamp].active = 1]

\* Mutant of SetActive: the item is replaced by one that holds the key and the
\* flag.
SetActiveReplacing(items, deploymentTimestamp, active) ==
    [items EXCEPT ![deploymentTimestamp] =
        [NoDeployment EXCEPT !.deploymentTimestamp = deploymentTimestamp,
                             !.active = active]]

\* SET active = :active on the item of the key.
SetActive(items, deploymentTimestamp, active) ==
    [items EXCEPT ![deploymentTimestamp].active = active]

StoreCall(op, deploymentTimestamp, ok) ==
    Call(op, deploymentTimestamp, Nil, NoArn, NoCount, ok)

\* deployment-tasks finalizeDeployment: the new Deployment is assembled.
FinalizeDeployment(p) ==
    LET r == run[p]
        deployment ==
            [deploymentTimestamp |-> 0, environment |-> r.environment, active |-> 0,
             tasks |-> r.serviceTasks \o r.jobTasks,
             services |-> r.services,
             parentDeployment |-> r.currentDeployment.deploymentTimestamp]
    IN  /\ r.pc = "finalizeDeployment"
        /\ Step(p, [r EXCEPT !.deployment = deployment,
                             !.pc = IF deployment.parentDeployment # 0
                                    THEN "withdrawParent" ELSE "putDeployment"])
        /\ UNCHANGED <<store, clock, taskDefinitions, written>>

\* Mutant of WithdrawParent: the parent is not withdrawn.
WithdrawParentSkipped(p) ==
    /\ run[p].pc = "withdrawParent"
    /\ Step(p, [run[p] EXCEPT !.pc = "putDeployment"])
    /\ UNCHANGED <<store, clock, taskDefinitions, written>>

\* Mutant of WithdrawParent: a failed withdrawal is reported and passed over.
WithdrawParentBestEffort(p) ==
    LET r == run[p]
        parent == r.deployment.parentDeployment
    IN  /\ r.pc = "withdrawParent"
        /\ \/ /\ Step(p, [Logged(r, StoreCall("update", parent, FALSE))
                            EXCEPT !.pc = "putDeployment"])
              /\ UNCHANGED store
           \/ /\ Step(p, [Logged(r, StoreCall("update", parent, TRUE))
                            EXCEPT !.pc = "putDeployment"])
              /\ store' = SetActive(store, parent, 0)
        /\ UNCHANGED <<clock, taskDefinitions, written>>

\* DeploymentCenter.finalizeDeployment, first write: the parent is withdrawn.
WithdrawParent(p) ==
    LET r == run[p]
        parent == r.deployment.parentDeployment
    IN  /\ r.pc = "withdrawParent"
        /\ \/ /\ Step(p, Reject(Logged(r, StoreCall("update", parent, FALSE)), "update"))
              /\ UNCHANGED store
           \/ /\ Step(p, [Logged(r, StoreCall("update", parent, TRUE))
                            EXCEPT !.pc = "putDeployment"])
              /\ store' = SetActive(store, parent, 0)
        /\ UNCHANGED <<clock, taskDefinitions, written>>

\* Mutant of PutDeployment: the put withdraws every other item of the
\* environment in the same write.
PutDeploymentWithdrawingOthers(p) ==
    LET r == run[p]
        deployment == [r.deployment EXCEPT
                         !.deploymentTimestamp = r.deploymentTimestamp,
                         !.active = 1]
    IN  /\ r.pc = "putDeployment"
        /\ \/ /\ Step(p, Reject(Logged([r EXCEPT !.deployment = deployment],
                                       StoreCall("put", deployment.deploymentTimestamp, FALSE)),
                                "put"))
              /\ UNCHANGED <<store, written>>
           \/ /\ Step(p, [Logged(r, StoreCall("put", deployment.deploymentTimestamp, TRUE))
                            EXCEPT !.deployment = deployment, !.result = deployment,
                                   !.pc = "runJobsBefore"])
              /\ store' = [t \in DOMAIN store |->
                             IF t = deployment.deploymentTimestamp THEN deployment
                             ELSE IF store[t].environment = deployment.environment
                                  THEN [store[t] EXCEPT !.active = 0]
                                  ELSE store[t]]
              /\ written' = [written EXCEPT ![deployment.deploymentTimestamp] = deployment]
        /\ UNCHANGED <<clock, taskDefinitions>>

\* DeploymentCenter.finalizeDeployment, second write: the new item is put.
PutDeployment(p) ==
    LET r == run[p]
        deployment == [r.deployment EXCEPT
                         !.deploymentTimestamp = r.deploymentTimestamp,
                         !.active = 1]
    IN  /\ r.pc = "putDeployment"
        /\ \/ /\ Step(p, Reject(Logged([r EXCEPT !.deployment = deployment],
                                       StoreCall("put", deployment.deploymentTimestamp, FALSE)),
                                "put"))
              /\ UNCHANGED <<store, written>>
           \/ /\ Step(p, [Logged(r, StoreCall("put", deployment.deploymentTimestamp, TRUE))
                            EXCEPT !.deployment = deployment, !.result = deployment,
                                   !.pc = "runJobsBefore"])
              /\ store' = [store EXCEPT ![deployment.deploymentTimestamp] = deployment]
              /\ written' = [written EXCEPT ![deployment.deploymentTimestamp] = deployment]
        /\ UNCHANGED <<clock, taskDefinitions>>

\* ------------------------------------------------------- runOnDeployJobs
ChunkSize == 10

JobsToRun(r, phase) ==
    SelectSeq(r.result.tasks,
              LAMBDA task : task.taskType = "job" /\ task.runOnDeploy = phase)

RECURSIVE RunTaskCalls(_)
RunTaskCalls(tasks) ==
    IF tasks = <<>> THEN <<>>
    ELSE <<Pending(Call("runTask", Head(tasks).taskId, Head(tasks).ecsCluster,
                        Head(tasks).taskDefinitionArn, NoCount, TRUE))>>
         \o RunTaskCalls(Tail(tasks))

\* Issue(r, calls, settling, next): Q.allSettled over the calls just issued;
\* with nothing to wait for the chain moves on at once.
Issue(r, calls, settling, next) ==
    IF calls = <<>> THEN [r EXCEPT !.pc = next]
    ELSE [r EXCEPT !.calls = @ \o calls,
                   !.pending = (Len(r.calls) + 1) .. (Len(r.calls) + Len(calls)),
                   !.pc = settling]

\* Mutant of RunJobsBefore: the before jobs are started and not waited for.
RunJobsBeforeDetached(p) ==
    LET r == run[p]
    IN  /\ r.pc = "runJobsBefore"
        /\ Step(p, [Issue(r, RunTaskCalls(JobsToRun(r, "before")),
                          "waitForServicesStable", "waitForServicesStable")
                      EXCEPT !.pending = {}])
        /\ UNCHANGED <<store, clock, taskDefinitions, written>>

RunJobsBefore(p) ==
    LET r == run[p]
    IN  /\ r.pc = "runJobsBefore"
        /\ Step(p, Issue(r, RunTaskCalls(JobsToRun(r, "before")),
                         "settleJobsBefore", "waitForServicesStable"))
        /\ UNCHANGED <<store, clock, taskDefinitions, written>>

\* _.groupBy(services, 'ecsCluster'): the clusters in order of first use.
RECURSIVE ClusterKeys(_)
ClusterKeys(tasks) ==
    IF tasks = <<>> THEN <<>>
    ELSE LET rest == ClusterKeys(SelectSeq(Tail(tasks),
                         LAMBDA t : t.ecsCluster # Head(tasks).ecsCluster))
         IN  <<Head(tasks).ecsCluster>> \o rest

\* Mutant of Chunk: one chunk holds everything.
ChunkWhole(seq, size) == IF seq = <<>> THEN <<>> ELSE <<seq>>

\* _.chunk(value, size)
RECURSIVE Chunk(_, _)
Chunk(seq, size) ==
    IF seq = <<>> THEN <<>>
    ELSE IF Len(seq) <= size THEN <<seq>>
    ELSE <<SubSeq(seq, 1, size)>> \o Chunk(SubSeq(seq, size + 1, Len(seq)), size)

RECURSIVE ServiceNames(_)
ServiceNames(tasks) ==
    IF tasks = <<>> THEN <<>>
    ELSE <<Head(tasks).serviceName>> \o ServiceNames(Tail(tasks))

RECURSIVE WaitCallsOfChunks(_, _)
WaitCallsOfChunks(chunks, cluster) ==
    IF chunks = <<>> THEN <<>>
    ELSE <<[Pending(Call("waitForServicesStable", Nil, cluster, NoArn, NoCount, TRUE))
              EXCEPT !.services = ServiceNames(Head(chunks))]>>
         \o WaitCallsOfChunks(Tail(chunks), cluster)

\* Mutant of WaitCalls: only the services of the first cluster are waited for.
WaitCallsOfFirstCluster(clusters, services) ==
    IF clusters = <<>> THEN <<>>
    ELSE WaitCallsOfChunks(
             Chunk(SelectSeq(services, LAMBDA t : t.ecsCluster = Head(clusters)),
                   ChunkSize),
             Head(clusters))

RECURSIVE WaitCalls(_, _)
WaitCalls(clusters, services) ==
    IF clusters = <<>> THEN <<>>
    ELSE WaitCallsOfChunks(
             Chunk(SelectSeq(services, LAMBDA t : t.ecsCluster = Head(clusters)),
                   ChunkSize),
             Head(clusters))
         \o WaitCalls(Tail(clusters), services)

WaitForServicesStable(p) ==
    LET r == run[p]
        services == SelectSeq(r.result.tasks, LAMBDA task : task.taskType = "service")
    IN  /\ r.pc = "waitForServicesStable"
        /\ Step(p, Issue(r, WaitCalls(ClusterKeys(services), services),
                         "settleWaits", "runJobsAfter"))
        /\ UNCHANGED <<store, clock, taskDefinitions, written>>

RunJobsAfter(p) ==
    LET r == run[p]
    IN  /\ r.pc = "runJobsAfter"
        /\ Step(p, Issue(r, RunTaskCalls(JobsToRun(r, "after")),
                         "settleJobsAfter", "deployed"))
        /\ UNCHANGED <<store, clock, taskDefinitions, written>>

AfterSettled(pc) ==
    CASE pc = "settleJobsBefore" -> "waitForServicesStable"
      [] pc = "settleWaits" -> "runJobsAfter"
      [] pc = "settleJobsAfter" -> "deployed"

\* Mutant of Settle: the first call that fails rejects the chain (Q.all).
SettleAll(p) ==
    LET r == run[p]
    IN  /\ r.pc \in {"settleJobsBefore", "settleWaits", "settleJobsAfter"}
        /\ \E i \in r.pending, ok \in BOOLEAN :
             LET settled == [r EXCEPT !.calls[i].status = IF ok THEN "ok" ELSE "error",
                                      !.pending = @ \ {i}]
             IN  Step(p, IF ~ok THEN Reject(settled, r.calls[i].op)
                         ELSE IF r.pending = {i}
                              THEN [settled EXCEPT !.pc = AfterSettled(r.pc)]
                              ELSE settled)
        /\ UNCHANGED <<store, clock, taskDefinitions, written>>

\* Mutant of Settle: the chain moves on when the last call has called back
\* and none has failed.
SettleSucceeded(p) ==
    LET r == run[p]
    IN  /\ r.pc \in {"settleJobsBefore", "settleWaits", "settleJobsAfter"}
        /\ \E i \in r.pending, ok \in BOOLEAN :
             Step(p, [r EXCEPT !.calls[i].status = IF ok THEN "ok" ELSE "error",
                               !.pending = @ \ {i},
                               !.pc = IF r.pending = {i} /\ ok
                                         /\ \A j \in DOMAIN r.calls :
                                               r.calls[j].status # "error"
                                      THEN AfterSettled(r.pc)
                                      ELSE r.pc])
        /\ UNCHANGED <<store, clock, taskDefinitions, written>>

\* One of the calls under Q.allSettled calls back, with an error or not; the
\* chain moves on when the last one has.
Settle(p) ==
    LET r == run[p]
    IN  /\ r.pc \in {"settleJobsBefore", "settleWaits", "settleJobsAfter"}
        /\ \E i \in r.pending, ok \in BOOLEAN :
             Step(p, [r EXCEPT !.calls[i].status = IF ok THEN "ok" ELSE "error",
                               !.pending = @ \ {i},
                               !.pc = IF r.pending = {i} THEN AfterSettled(r.pc)
                                      ELSE r.pc])
        /\ UNCHANGED <<store, clock, taskDefinitions, written>>

\* exports.deploy resolves with {result, options}.
DeployResolved(p) ==
    LET r == run[p]
    IN  /\ r.pc = "deployed"
        /\ Step(p, [r EXCEPT !.pc = "resolved", !.outcome = "resolved"])
        /\ UNCHANGED <<store, clock, taskDefinitions, written>>

\* -------------------------------------------------------------- rollback
\* Mutant of CheckCurrentDeployment: a current deployment without parent is
\* refused as well.
CheckCurrentDeploymentNeedsParent(p) ==
    LET r == run[p]
    IN  /\ r.pc = "checkCurrentDeployment"
        /\ Step(p, IF r.currentDeployment.parentDeployment # 0
                   THEN [r EXCEPT !.pc = "extractSettingsFromParentDeployment"]
                   ELSE Reject(r, "No existing deployment in this environment to rollback from."))
        /\ UNCHANGED <<store, clock, taskDefinitions, written>>

\* Mutant of CheckCurrentDeployment: the check is missing.
CheckCurrentDeploymentMissing(p) ==
    /\ run[p].pc = "checkCurrentDeployment"
    /\ Step(p, [run[p] EXCEPT !.pc = "extractSettingsFromParentDeployment"])
    /\ UNCHANGED <<store, clock, taskDefinitions, written>>

CheckCurrentDeployment(p) ==
    LET r == run[p]
    IN  /\ r.pc = "checkCurrentDeployment"
        /\ Step(p, IF r.currentDeployment # NoDeployment
                   THEN [r EXCEPT !.pc = "extractSettingsFromParentDeployment"]
                   ELSE Reject(r, "No existing deployment in this environment to rollback from."))
        /\ UNCHANGED <<store, clock, taskDefinitions, written>>

TasksOfType(deployment, taskType) ==
    SelectSeq(deployment.tasks, LAMBDA task : task.taskType = taskType)

\* The parent's settings become the desired state of the run.
WithParent(r, parentDeployment) ==
    [r EXCEPT !.parentDeployment = parentDeployment,
              !.serviceTasks = TasksOfType(parentDeployment, "service"),
              !.jobTasks = TasksOfType(parentDeployment, "job"),
              !.services = parentDeployment.services,
              !.pc = "updateServices", !.idx = 1]

\* DeploymentCenter.get of the parent reference; no reference, no round trip.
ExtractSettingsFromParentDeployment(p) ==
    LET r == run[p]
        parent == r.currentDeployment.parentDeployment
    IN  /\ r.pc = "extractSettingsFromParentDeployment"
        /\ IF parent = 0
           THEN Step(p, WithParent(r, NoDeployment))
           ELSE \/ Step(p, Reject(Logged(r, StoreCall("get", parent, FALSE)), "get"))
                \/ Step(p, WithParent(Logged(r, StoreCall("get", parent, TRUE)),
                                      store[parent]))
        /\ UNCHANGED <<store, clock, taskDefinitions, written>>

\* Mutant of DeactivateCurrent: the parent is reactivated first, the current
\* deployment deactivated last.
DeactivateCurrentLast(p) ==
    LET r == run[p]
        current == r.currentDeployment.deploymentTimestamp
        parent == r.parentDeployment.deploymentTimestamp
        reactivated == IF r.parentDeployment # NoDeployment
                       THEN Logged(r, StoreCall("update", parent, TRUE))
                       ELSE r
    IN  /\ r.pc = "finalizeRollback"
        /\ \/ /\ Step(p, Reject(Logged(r, StoreCall("update", current, FALSE)), "update"))
              /\ UNCHANGED store
           \/ /\ Step(p, [Logged(reactivated, StoreCall("update", current, TRUE))
                            EXCEPT !.currentDeployment.active = 0,
                                   !.result = r.parentDeployment,
                                   !.pc = "resolved", !.outcome = "resolved"])
              /\ store' = SetActive(IF r.parentDeployment # NoDeployment
                                    THEN SetActive(store, parent, 1) ELSE store,
                                    current, 0)
        /\ UNCHANGED <<clock, taskDefinitions, written>>

\* finalizeRollback, first write: the current deployment is deactivated.
DeactivateCurrent(p) ==
    LET r == run[p]
        current == r.currentDeployment.deploymentTimestamp
    IN  /\ r.pc = "finalizeRollback"
        /\ \/ /\ Step(p, Reject(Logged(r, StoreCall("update", current, FALSE)), "update"))
              /\ UNCHANGED store
           \/ /\ Step(p, [Logged(r, StoreCall("update", current, TRUE))
                            EXCEPT !.currentDeployment.active = 0,
                                   !.pc = "reactivateParent"])
              /\ store' = SetActive(store, current, 0)
        /\ UNCHANGED <<clock, taskDefinitions, written>>

\* Mutant of ReactivateParent: the rollback resolves without the second write.
ReactivateParentSkipped(p) ==
    /\ run[p].pc = "reactivateParent"
    /\ Step(p, [run[p] EXCEPT !.result = run[p].parentDeployment,
                              !.pc = "resolved", !.outcome = "resolved"])
    /\ UNCHANGED <<store, clock, taskDefinitions, written>>

\* Mutant of ReactivateParent: the rollback goes on to the on-deploy jobs of
\* the deployment it went back to.
ReactivateParentRunningJobs(p) ==
    LET r == run[p]
        parent == r.parentDeployment.deploymentTimestamp
    IN  /\ r.pc = "reactivateParent"
        /\ IF r.parentDeployment # NoDeployment
           THEN \/ /\ Step(p, Reject(Logged(r, StoreCall("update", parent, FALSE)),
                                     "update"))
                   /\ UNCHANGED store
                \/ /\ Step(p, [Logged(r, StoreCall("update", parent, TRUE))
                                 EXCEPT !.parentDeployment.active = 1,
                                        !.result = [r.parentDeployment EXCEPT !.active = 1],
                                        !.pc = "runJobsBefore"])
                   /\ store' = SetActive(store, parent, 1)
           ELSE /\ Step(p, [r EXCEPT !.result = NoDeployment,
                                     !.pc = "resolved", !.outcome = "resolved"])
                /\ UNCHANGED store
        /\ UNCHANGED <<clock, taskDefinitions, written>>

\* finalizeRollback, second write: the parent, if any, is reactivated; the
\* rollback resolves with the parent.
ReactivateParent(p) ==
    LET r == run[p]
        parent == r.parentDeployment.deploymentTimestamp
    IN  /\ r.pc = "reactivateParent"
        /\ IF r.parentDeployment # NoDeployment
           THEN \/ /\ Step(p, Reject(Logged(r, StoreCall("update", parent, FALSE)),
                                     "update"))
                   /\ UNCHANGED store
                \/ /\ Step(p, [Logged(r, StoreCall("update", parent, TRUE))
                                 EXCEPT !.parentDeployment.active = 1,
                                        !.result = [r.parentDeployment EXCEPT !.active = 1],
                                        !.pc = "resolved", !.outcome = "resolved"])
                   /\ store' = SetActive(store, parent, 1)
           ELSE /\ Step(p, [r EXCEPT !.result = NoDeployment,
                                     !.pc = "resolved", !.outcome = "resolved"])
                /\ UNCHANGED store
        /\ UNCHANGED <<clock, taskDefinitions, written>>

\* ---------------------------------------------------------------- runJob
\* Mutant of JobOfCurrentDeployment: the task is looked up by name alone.
TaskOfCurrentDeployment(r, jobName) ==
    SelectSeq(r.currentDeployment.tasks, LAMBDA task : task.taskId = jobName)

\* The first job of the current deployment with the name, if any.
JobOfCurrentDeployment(r, jobName) ==
    SelectSeq(r.currentDeployment.tasks,
              LAMBDA task : task.taskId = jobName /\ task.taskType = "job")

\* runJob: the job is run, or the chain rejects with 'No Job Found'.
RunJob(p) ==
    LET r == run[p]
        found == JobOfCurrentDeployment(r, r.job)
        task == Head(found)
        runTask(ok) == Call("runTask", task.taskId, task.ecsCluster,
                            task.taskDefinitionArn, NoCount, ok)
    IN  /\ r.pc = "runJob"
        /\ IF found # <<>>
           THEN \/ Step(p, Reject(Logged(r, runTask(FALSE)), "runTask"))
                \/ Step(p, [Logged(r, runTask(TRUE))
                              EXCEPT !.pc = "resolved", !.outcome = "resolved"])
           ELSE Step(p, Reject(r, "No Job Found"))
        /\ UNCHANGED <<store, clock, taskDefinitions, written>>

\* ------------------------------------------------------- cron lambda
\* The times of the CloudwatchEvents that trigger the lambda, in seconds.
EventTimes == {30, 90}

\* later.minute.start(date): the start of the minute the date falls in.
MinuteStart(seconds) == seconds - (seconds % 60)

\* later.schedule(later.parse.cron(schedule)).isValid(time)
isScheduled(job, time) ==
    CASE job.schedule = EveryMinute -> TRUE
      [] job.schedule = EveryOtherMinute -> (time \div 60) % 2 = 0
      [] OTHER -> FALSE

\* Number of items DynamoDB evaluates for one page of a scan.
PageSize == 1

\* The scan goes through the index DeploymentStatus in the order of that
\* index, which the lambda does not choose: from the oldest item to the newest
\* or from the newest to the oldest.
ScanOrders == {"ascending", "descending"}

\* The keys of the items of the table, as a scan goes through them.
ItemKeys(table, order) ==
    SelectSeq([t \in 1 .. MaxDeploys |->
                 IF order = "ascending" THEN t ELSE MaxDeploys + 1 - t],
              LAMBDA t : table[t].deploymentTimestamp # 0)

\* The keys a scan evaluates for the page that starts after ExclusiveStartKey
\* (0: from the start).
PageKeys(table, ExclusiveStartKey, order) ==
    LET rest == SelectSeq(ItemKeys(table, order),
                          LAMBDA t : \/ ExclusiveStartKey = 0
                                     \/ order = "ascending" /\ t > ExclusiveStartKey
                                     \/ order = "descending" /\ t < ExclusiveStartKey)
    IN  SubSeq(rest, 1, IF Len(rest) < PageSize THEN Len(rest) ELSE PageSize)

\* Mutant of ActiveItems: the scan does not filter.
ActiveItemsUnfiltered(table, keys) == keys

\* FilterExpression 'active = :active' with :active = 1, applied to the page.
ActiveItems(table, keys) == SelectSeq(keys, LAMBDA t : table[t].active = 1)

\* The tasks of the items of a page that fn runs: those with a schedule
\* (line 51) that is valid at the time of the tick (line 109).
RECURSIVE TasksToRun(_, _, _)
TasksToRun(table, keys, time) ==
    IF keys = <<>> THEN <<>>
    ELSE SelectSeq(table[Head(keys)].tasks,
                   LAMBDA task : task.schedule # Nil /\ isScheduled(task, time))
         \o TasksToRun(table, Tail(keys), time)

\* exports.runCronJobs up to the first scan being sent.
Tick(p, eventTime) ==
    /\ run[p].pc = "idle"
    /\ FirstIdle(p)
    /\ \E order \in ScanOrders :
          Step(p, [IdleRun EXCEPT !.kind = "runCronJobs", !.pc = "scan",
                                  !.time = MinuteStart(eventTime),
                                  !.order = order,
                                  !.storeAtStart = store])
    /\ UNCHANGED <<store, clock, taskDefinitions, written>>

StartTick(p, eventTime) == NoOtherRun(p) /\ Tick(p, eventTime)

\* The rule of the scheduler fires once a minute, whatever command is under
\* way; a tick is over well before the next one.
StartRacingTick(p, eventTime) ==
    /\ \A q \in Procs \ {p} : run[q].kind # "runCronJobs"
    /\ Tick(p, eventTime)

\* The callback of dynamoDB.scan: an error is logged and ends the scan; else
\* runTask is sent for the tasks of the page that are due, and the next page
\* is asked for when there is one.
Scan(p) ==
    LET r == run[p]
        scan(ok) == Call("scan", Nil, Nil, NoArn, NoCount, ok)
        keys == PageKeys(store, r.LastEvaluatedKey, r.order)
        last == IF keys = <<>> THEN 0 ELSE keys[Len(keys)]
        more == keys # <<>> /\ PageKeys(store, last, r.order) # <<>>
        calls == RunTaskCalls(TasksToRun(store, ActiveItems(store, keys), r.time))
        scanned == Logged(r, scan(TRUE))
    IN  /\ r.pc = "scan"
        /\ \/ Step(p, [Logged(r, scan(FALSE)) EXCEPT !.pc = "scanned"])
           \/ Step(p, [scanned EXCEPT
                         !.calls = @ \o calls,
                         !.pending = @ \cup ((Len(scanned.calls) + 1) ..
                                             (Len(scanned.calls) + Len(calls))),
                         !.LastEvaluatedKey = IF more THEN last ELSE 0,
                         !.pc = IF more THEN "scan" ELSE "scanned"])
        /\ UNCHANGED <<store, clock, taskDefinitions, written>>

\* Mutant of TaskRun: a failed runTask ends the tick.
TaskRunEndingTick(p) ==
    LET r == run[p]
    IN  /\ r.kind = "runCronJobs"
        /\ \E i \in r.pending, ok \in BOOLEAN :
              Step(p, [Returned(r, i, ok) EXCEPT
                         !.pc = IF ok THEN @ ELSE "scanned",
                         !.LastEvaluatedKey = IF ok THEN @ ELSE 0])
        /\ UNCHANGED <<store, clock, taskDefinitions, written>>

\* The callback of ecs.runTask in the lambda: an error is logged.
TaskRun(p) ==
    LET r == run[p]
    IN  /\ r.kind = "runCronJobs"
        /\ \E i \in r.pending, ok \in BOOLEAN : Step(p, Returned(r, i, ok))
        /\ UNCHANGED <<store, clock, taskDefinitions, written>>

\* ------------------------------------------------------------ cli commands
\* The rejections that are a string and not an Error (lines 376 and 540 of
\* deployment-tasks.js).
Strings == {"No Job Found", "No existing deployment in this environment to rollback from."}

\* err.message: the message of an Error, undefined for a string.
Message(err) == IF err \in Strings THEN "undefined" ELSE err

\* The end of a command: its catch handler logs err.message of a rejection,
\* nothing sets an exit code, and the process ends with status 0.
Catch(p) ==
    LET r == run[p]
    IN  /\ r.pc \in {"resolved", "rejected"}
        /\ r.exitStatus = NoCount
        /\ Step(p, [r EXCEPT !.logged = IF r.pc = "rejected" THEN Message(r.error)
                                        ELSE Nil,
                             !.exitStatus = 0])
        /\ UNCHANGED <<store, clock, taskDefinitions, written>>

Exit(p) ==
    /\ \/ run[p].pc \in {"resolved", "rejected"} /\ run[p].exitStatus # NoCount
       \/ run[p].pc = "scanned" /\ run[p].pending = {}
    /\ Step(p, IdleRun)
    /\ UNCHANGED <<store, clock, taskDefinitions, written>>

Next ==
    \E p \in Procs :
        \/ \E env \in Environments : \E cfg \in Manifests(env) : StartDeploy(p, env, cfg)
        \/ \E env \in Environments : StartRollback(p, env)
        \/ \E env \in Environments, jobName \in JobNames : StartRunJob(p, env, jobName)
        \/ SetupDeploymentCenter(p)
        \/ GetCurrentDeployment(p)
        \/ PruneTasks(p)
        \/ BuildImage(p)
        \/ RepositoryFound(p)
        \/ ImageBuilt(p)
        \/ BuildImagesDone(p)
        \/ GetAuthorizationToken(p)
        \/ PushImage(p)
        \/ ImagePushed(p)
        \/ PushImagesDone(p)
        \/ CreateTaskDefinition(p)
        \/ CreateTaskDefinitionsDone(p)
        \/ BuildDeployableTaskItems(p)
        \/ DescribeService(p)
        \/ CreateOrUpdateService(p)
        \/ UpdateServicesDone(p)
        \/ DeleteService(p)
        \/ RemoveServicesDone(p)
        \/ FinalizeDeployment(p)
        \/ WithdrawParent(p)
        \/ PutDeployment(p)
        \/ RunJobsBefore(p)
        \/ WaitForServicesStable(p)
        \/ RunJobsAfter(p)
        \/ Settle(p)
        \/ DeployResolved(p)
        \/ CheckCurrentDeployment(p)
        \/ ExtractSettingsFromParentDeployment(p)
        \/ DeactivateCurrent(p)
        \/ ReactivateParent(p)
        \/ RunJob(p)
        \/ \E eventTime \in EventTimes : StartTick(p, eventTime)
        \/ Scan(p)
        \/ TaskRun(p)
        \/ Catch(p)
        \/ Exit(p)

Spec == Init /\ [][Next]_vars

\* Deploys of one environment that overlap: nothing keeps a second deploy from
\* starting while the first is under way.  The small manifest has no image and
\* leaves no service out, so the steps of those stages are not listed.
NextOverlap ==
    \E p \in Procs :
        \/ StartOverlappingDeploy(p)
        \/ SetupDeploymentCenter(p)
        \/ GetCurrentDeployment(p)
        \/ PruneTasks(p)
        \/ BuildImagesDone(p)
        \/ GetAuthorizationToken(p)
        \/ PushImagesDone(p)
        \/ CreateTaskDefinition(p)
        \/ CreateTaskDefinitionsDone(p)
        \/ BuildDeployableTaskItems(p)
        \/ DescribeService(p)
        \/ CreateOrUpdateService(p)
        \/ UpdateServicesDone(p)
        \/ RemoveServicesDone(p)
        \/ FinalizeDeployment(p)
        \/ WithdrawParent(p)
        \/ PutDeployment(p)
        \/ RunJobsBefore(p)
        \/ WaitForServicesStable(p)
        \/ RunJobsAfter(p)
        \/ Settle(p)
        \/ DeployResolved(p)
        \/ Catch(p)
        \/ Exit(p)

SpecOverlap == Init /\ [][NextOverlap]_vars

\* A tick of the scheduler that runs while a deploy or a rollback of the small
\* manifest's environment is under way.
NextRace ==
    \E p \in Procs :
        \/ StartRacedDeploy(p)
        \/ StartRacedRollback(p)
        \/ \E eventTime \in EventTimes : StartRacingTick(p, eventTime)
        \/ SetupDeploymentCenter(p)
        \/ GetCurrentDeployment(p)
        \/ PruneTasks(p)
        \/ BuildImagesDone(p)
        \/ GetAuthorizationToken(p)
        \/ PushImagesDone(p)
        \/ CreateTaskDefinition(p)
        \/ CreateTaskDefinitionsDone(p)
        \/ BuildDeployableTaskItems(p)
        \/ DescribeService(p)
        \/ CreateOrUpdateService(p)
        \/ UpdateServicesDone(p)
        \/ RemoveServicesDone(p)
        \/ FinalizeDeployment(p)
        \/ WithdrawParent(p)
        \/ PutDeployment(p)
        \/ RunJobsBefore(p)
        \/ WaitForServicesStable(p)
        \/ RunJobsAfter(p)
        \/ Settle(p)
        \/ DeployResolved(p)
        \/ CheckCurrentDeployment(p)
        \/ ExtractSettingsFromParentDeployment(p)
        \/ DeactivateCurrent(p)
        \/ ReactivateParent(p)
        \/ Scan(p)
        \/ TaskRun(p)
        \/ Catch(p)
        \/ Exit(p)

SpecRace == Init /\ [][NextRace]_vars

\* Deploys and rollbacks of one environment, one at a time, in which every
\* step of a run that can be taken is taken in the end: a call that was sent
\* calls back, with an error or not, and a promise that is settled runs its
\* handlers.  The manifests are the one with images and on-deploy jobs and the
\* small one.
FairManifests == {ImagesAndJobs} \cup Manifests("dev")

StartFairDeploy(p) == \E cfg \in FairManifests : StartDeploy(p, "prod", cfg)

\* The steps of a run once it has started, up to its resolution or rejection.
Proceed(p) ==
    \/ SetupDeploymentCenter(p)
    \/ GetCurrentDeployment(p)
    \/ PruneTasks(p)
    \/ BuildImage(p)
    \/ RepositoryFound(p)
    \/ ImageBuilt(p)
    \/ BuildImagesDone(p)
    \/ GetAuthorizationToken(p)
    \/ PushImage(p)
    \/ ImagePushed(p)
    \/ PushImagesDone(p)
    \/ CreateTaskDefinition(p)
    \/ CreateTaskDefinitionsDone(p)
    \/ BuildDeployableTaskItems(p)
    \/ DescribeService(p)
    \/ CreateOrUpdateService(p)
    \/ UpdateServicesDone(p)
    \/ DeleteService(p)
    \/ RemoveServicesDone(p)
    \/ FinalizeDeployment(p)
    \/ WithdrawParent(p)
    \/ PutDeployment(p)
    \/ RunJobsBefore(p)
    \/ WaitForServicesStable(p)
    \/ RunJobsAfter(p)
    \/ Settle(p)
    \/ DeployResolved(p)
    \/ CheckCurrentDeployment(p)
    \/ ExtractSettingsFromParentDeployment(p)
    \/ DeactivateCurrent(p)
    \/ ReactivateParent(p)

NextFair ==
    \E p \in Procs :
        \/ StartFairDeploy(p)
        \/ StartRollback(p, "prod")
        \/ Proceed(p)
        \/ Catch(p)
        \/ Exit(p)

SpecFair == Init /\ [][NextFair]_vars /\ \A p \in Procs : WF_vars(Proceed(p))

\* runOnDeployJobs of a Deployment with many services: the Deployment that was
\* put holds up to MaxServices services, each on one of two clusters, and the
\* before jobs have settled.
MaxServices == 12

ManyServiceIds ==
    <<"S1", "S2", "S3", "S4", "S5", "S6", "S7", "S8", "S9", "S10", "S11", "S12",
      "S13", "S14", "S15">>

ClusterChoices == UNION {[1 .. n -> {"c1", "c2"}] : n \in 0 .. MaxServices}

ManyServices(clusters) ==
    [i \in DOMAIN clusters |->
        DeployableTaskItem(ManyServiceIds[i], "service",
                           [ServiceTemplate(TRUE, TRUE, clusters[i], 1)
                              EXCEPT !.taskDefinitionArn = i],
                           "prod")]

InitWaits ==
    /\ store = [t \in Timestamps |-> NoDeployment]
    /\ clock = 1
    /\ taskDefinitions = <<>>
    /\ written = [t \in Timestamps |-> NoDeployment]
    /\ \E clusters \in ClusterChoices :
          run = [p \in Procs |->
                   IF p = 1
                   THEN [IdleRun EXCEPT
                           !.kind = "deploy", !.pc = "waitForServicesStable",
                           !.environment = "prod", !.deploymentTimestamp = 1,
                           !.result = [NoDeployment EXCEPT
                                         !.deploymentTimestamp = 1,
                                         !.environment = "prod", !.active = 1,
                                         !.tasks = ManyServices(clusters)]]
                   ELSE IdleRun]

NextWaits == \E p \in Procs : WaitForServicesStable(p)

SpecWaits == InitWaits /\ [][NextWaits]_vars

\* ================================================================ claims
CallsOf(r, ops) == {i \in DOMAIN r.calls : r.calls[i].op \in ops}

FailedCallsOf(r, ops) == {i \in CallsOf(r, ops) : r.calls[i].status = "error"}

\* updateService carrying a task definition, as opposed to the scale to zero
\* of deleteService
IsServiceUpdate(call) ==
    \/ call.op = "createService"
    \/ call.op = "updateService" /\ call.count = NoCount

ServiceOps == {"describeService", "createService", "updateService", "deleteService"}
ClusterOps == ServiceOps \cup {"registerTaskDefinition", "runTask", "waitForServicesStable"}
StoreWrites == {"update", "put"}

Items(env) ==
    {t \in DOMAIN store : store[t].deploymentTimestamp # 0 /\ store[t].environment = env}

\* C1: with runs that never overlap, from an empty table, every state - also
\* between the two writes of finalize or of rollback and after a run that
\* failed midway - has at most one active deployment per environment.
AtMostOneActive ==
    \A env \in Environments : Cardinality(ActiveDeployments(env)) <= 1

\* C1, witness: a run failed between its two writes, next to an older record.
AtMostOneActiveWitness ==
    \E p \in Procs :
        /\ run[p].pc = "rejected"
        /\ run[p].error \in {"put", "update"}
        /\ FailedCallsOf(run[p], StoreWrites) # {}
        /\ CallsOf(run[p], StoreWrites) \ FailedCallsOf(run[p], StoreWrites) # {}
        /\ Cardinality(Items(run[p].environment)) = 2

Finalized(r) ==
    /\ r.kind = "deploy"
    /\ \E i \in CallsOf(r, {"put"}) : r.calls[i].status = "ok"

\* C2 (P4): once finalizeDeployment has put the new item over a pre-existing
\* active deployment, the active query yields exactly the new item and the
\* former active item has active = 0.
FinalizedIsTheOnlyActive ==
    \A p \in Procs :
        Finalized(run[p]) /\ run[p].currentDeployment # NoDeployment =>
            /\ GetCurrentDeployedVersion(run[p].environment) = {run[p].deployment}
            /\ ActiveDeployments(run[p].environment) = {run[p].deploymentTimestamp}
            /\ store[run[p].currentDeployment.deploymentTimestamp].active = 0
            /\ run[p].currentDeployment.deploymentTimestamp # run[p].deploymentTimestamp

\* C2, witness: a deploy over an active deployment has resolved.
FinalizedIsTheOnlyActiveWitness ==
    \E p \in Procs :
        /\ Finalized(run[p])
        /\ run[p].currentDeployment # NoDeployment
        /\ run[p].currentDeployment.active = 1
        /\ run[p].pc = "resolved"

RolledBack(r) ==
    /\ r.kind = "rollback"
    /\ r.pc = "resolved"
    /\ r.currentDeployment.parentDeployment # 0

\* C3 (P5): a rollback that resolved with a parent leaves the parent as the
\* active deployment, with the tasks and services it was written with, the
\* rolled back deployment inactive, and returns the parent item.
RollbackRestoresParent ==
    \A p \in Procs :
        RolledBack(run[p]) =>
            LET current == run[p].currentDeployment.deploymentTimestamp
                parent == run[p].currentDeployment.parentDeployment
            IN  /\ ActiveDeployments(run[p].environment) = {parent}
                /\ store[parent].tasks = written[parent].tasks
                /\ store[parent].services = written[parent].services
                /\ store[parent] = [written[parent] EXCEPT !.active = 1]
                /\ store[current].active = 0
                /\ run[p].result = store[parent]

\* C3, witness: V1, then a different V2, then the rollback.
RollbackRestoresParentWitness ==
    \E p \in Procs :
        /\ RolledBack(run[p])
        /\ run[p].currentDeployment.deploymentTimestamp = 2
        /\ run[p].currentDeployment.parentDeployment = 1
        /\ written[1].tasks # written[2].tasks
        /\ written[1].tasks # <<>>

\* C4, as claimed: a rollback of an active deployment without parent never
\* completes (it fails with the precondition error).
RollbackWithoutParentFails ==
    \A p \in Procs :
        /\ run[p].kind = "rollback"
        /\ run[p].currentDeployment # NoDeployment
        /\ run[p].currentDeployment.parentDeployment = 0
        => run[p].pc # "resolved"

PreconditionError == "No existing deployment in this environment to rollback from."

\* C4, amended: a rollback of an active deployment without parent is never
\* refused with the precondition error; when it resolves it has removed the
\* services of the current deployment, touched no other service, deactivated
\* the current deployment, and it returns no deployment and leaves none active.
RollbackWithoutParentCompletes ==
    \A p \in Procs :
        /\ run[p].kind = "rollback"
        /\ run[p].currentDeployment # NoDeployment
        /\ run[p].currentDeployment.parentDeployment = 0
        => LET r == run[p] IN
           /\ r.error # PreconditionError
           /\ r.pc = "resolved" =>
                /\ r.result = NoDeployment
                /\ ActiveDeployments(r.environment) = {}
                /\ store[r.currentDeployment.deploymentTimestamp].active = 0
                /\ \A i \in DOMAIN r.calls : ~IsServiceUpdate(r.calls[i])
                /\ \A i \in DOMAIN r.currentDeployment.tasks :
                      r.currentDeployment.tasks[i].taskType = "service" =>
                         \E j \in CallsOf(r, {"deleteService"}) :
                            /\ r.calls[j].id = r.currentDeployment.tasks[i].taskId
                            /\ r.calls[j].status = "ok"

\* C4, witness: the second of two rollbacks in a row after V1 and V2 resolved.
RollbackWithoutParentCompletesWitness ==
    \E p \in Procs :
        /\ run[p].kind = "rollback"
        /\ run[p].pc = "resolved"
        /\ run[p].currentDeployment.deploymentTimestamp = 1
        /\ run[p].currentDeployment.parentDeployment = 0
        /\ run[p].currentDeployment.tasks # <<>>
        /\ store[2].deploymentTimestamp = 2
        /\ store[2].parentDeployment = 1
        /\ store[2].active = 0

FoundNoActive(r) ==
    /\ r.kind = "rollback"
    /\ r.pc \notin {"idle", "setup", "getCurrentDeployment", "checkCurrentDeployment"}
    /\ \E i \in CallsOf(r, {"query"}) : r.calls[i].status = "ok"
    /\ r.currentDeployment = NoDeployment

\* C5: a rollback that finds no active deployment is rejected with the
\* precondition error, having issued no cluster call and no store write.
NoDeploymentToRollback ==
    \A p \in Procs :
        FoundNoActive(run[p]) =>
            /\ run[p].pc = "rejected"
            /\ run[p].error = PreconditionError
            /\ CallsOf(run[p], ClusterOps \cup StoreWrites) = {}
            /\ store = run[p].storeAtStart

\* C5, witness: a rollback refused in an environment whose deployments are
\* all inactive.
NoDeploymentToRollbackWitness ==
    \E p \in Procs :
        /\ FoundNoActive(run[p])
        /\ run[p].error = PreconditionError
        /\ Items(run[p].environment) # {}

WithdrawFailed(r) ==
    /\ r.kind = "deploy"
    /\ r.pc \in {"rejected", "resolved"}
    /\ FailedCallsOf(r, {"update"}) # {}

\* C6, as claimed: when the deactivation of the parent fails, finalize still
\* writes the new item with active = 1.
FinalizeSurvivesWithdrawFailure ==
    \A p \in Procs :
        WithdrawFailed(run[p]) => store[run[p].deploymentTimestamp].active = 1

\* C6, amended: when the deactivation of the parent fails, finalize rejects
\* with that error and puts nothing: the table is as the deploy found it, the
\* parent still active.
FinalizeAbortsOnWithdrawFailure ==
    \A p \in Procs :
        WithdrawFailed(run[p]) =>
            /\ run[p].pc = "rejected"
            /\ run[p].error = "update"
            /\ CallsOf(run[p], {"put"}) = {}
            /\ store[run[p].deploymentTimestamp] = NoDeployment
            /\ store = run[p].storeAtStart
            /\ ActiveDeployments(run[p].environment)
                  = {run[p].currentDeployment.deploymentTimestamp}

\* C6, witness: the withdrawal of V1 failed in the deploy of V2.
FinalizeAbortsOnWithdrawFailureWitness ==
    \E p \in Procs :
        /\ WithdrawFailed(run[p])
        /\ run[p].deployment.parentDeployment = 1
        /\ run[p].deployment.tasks # <<>>

\* The position of the desired service a reconcile call is about.
ServiceCallsOf(r, taskId) ==
    {i \in CallsOf(r, {"describeService", "createService", "updateService"}) :
        r.calls[i].id = taskId /\ (r.calls[i].op = "updateService" => r.calls[i].count = NoCount)}

Reconciled(r, taskId) ==
    \E i \in ServiceCallsOf(r, taskId) :
        /\ r.calls[i].op = "describeService"
        /\ r.calls[i].status = "ok"
        /\ i + 1 \in ServiceCallsOf(r, taskId)
        /\ IsServiceUpdate(r.calls[i + 1])

ServiceFailures(r) ==
    {i \in FailedCallsOf(r, {"describeService", "createService", "updateService"}) :
        r.calls[i].op = "describeService" \/ IsServiceUpdate(r.calls[i])}

FailedServiceUpdates(r) == {i \in ServiceFailures(r) : IsServiceUpdate(r.calls[i])}

RegistrationFailed(r) ==
    /\ r.kind = "deploy"
    /\ \/ FailedCallsOf(r, {"registerTaskDefinition"}) # {}
       \/ r.error = "missing a task template"

\* C9: a deploy in which a registration failed, or a task to update had no
\* taskTemplate, rejects without any service call and without finalize; the
\* table is as the deploy found it.
RegistrationFailureAborts ==
    \A p \in Procs :
        RegistrationFailed(run[p]) =>
            /\ run[p].pc = "rejected"
            /\ CallsOf(run[p], ServiceOps) = {}
            /\ CallsOf(run[p], StoreWrites) = {}
            /\ run[p].deployment = NoDeployment
            /\ store = run[p].storeAtStart

\* C9, witness: the second registration of a deploy failed, over a table that
\* holds an active deployment.
RegistrationFailureAbortsWitness ==
    \E p \in Procs :
        /\ FailedCallsOf(run[p], {"registerTaskDefinition"}) # {}
        /\ CallsOf(run[p], {"registerTaskDefinition"})
              # FailedCallsOf(run[p], {"registerTaskDefinition"})
        /\ run[p].currentDeployment.active = 1

IssuedCalls(p) == (Len(run[p].calls) + 1) .. Len(run'[p].calls)

Pushed(r, imageId) ==
    \E j \in CallsOf(r, {"pushImage"}) :
        r.calls[j].id = imageId /\ r.calls[j].status = "ok"

\* C10: in a deploy, registerTaskDefinition is issued only after every image
\* has been pushed, and never after a service call; createService and
\* updateService carry an arn that a registration of that service's family
\* has returned before, the one of this run when the service is updated.
StagesOrdered ==
    [][\A p \in Procs :
          run'[p].kind = "deploy" =>
             \A i \in IssuedCalls(p) :
                LET call == run'[p].calls[i] IN
                /\ call.op = "registerTaskDefinition" =>
                      /\ \A imageId \in Range(run[p].images) : Pushed(run[p], imageId)
                      /\ CallsOf(run[p], ServiceOps) = {}
                /\ IsServiceUpdate(call) =>
                      /\ call.arn \in 1 .. Len(taskDefinitions)
                      /\ taskDefinitions[call.arn].family = <<call.id, run[p].environment>>
                      /\ shouldUpdate(run[p], call.id) =>
                            \E j \in CallsOf(run[p], {"registerTaskDefinition"}) :
                               /\ run[p].calls[j].id = call.id
                               /\ run[p].calls[j].arn = call.arn
                               /\ run[p].calls[j].status = "ok"]_vars

\* C10, witness: a deploy that pushed an image has created or updated two
\* services, one with the arn it registered and one with an arn it kept.
StagesOrderedWitness ==
    \E p \in Procs :
        /\ run[p].kind = "deploy"
        /\ run[p].images # <<>>
        /\ \E i, j \in DOMAIN run[p].calls :
              /\ IsServiceUpdate(run[p].calls[i])
              /\ shouldUpdate(run[p], run[p].calls[i].id)
              /\ IsServiceUpdate(run[p].calls[j])
              /\ ~shouldUpdate(run[p], run[p].calls[j].id)

\* The runTask calls of a run for the jobs of a phase of runOnDeploy.
JobCalls(r, phase) ==
    {i \in CallsOf(r, {"runTask"}) :
        \E j \in DOMAIN r.result.tasks :
           /\ r.result.tasks[j].taskType = "job"
           /\ r.result.tasks[j].taskId = r.calls[i].id
           /\ r.result.tasks[j].runOnDeploy = phase}

WaitsOf(r) == CallsOf(r, {"waitForServicesStable"})

Settled(r, i) == r.calls[i].status # "pending"

\* The calls among is issued for every task of tasks, each before call k.
IssuedBefore(r, is, tasks, k) ==
    \A j \in DOMAIN tasks : \E i \in is : i < k /\ r.calls[i].id = tasks[j].taskId

\* C11: when a waitForServicesStable is issued, the runTask of every before
\* job of the deploy has been issued and has settled; when the runTask of an
\* after job is issued, the stability wait of every cluster that has a service
\* has been issued and has settled, and so has every before job.
JobPhasesOrdered ==
    \A p \in Procs :
        LET r == run[p]
            services == TasksOfType(r.result, "service")
        IN  /\ \A w \in WaitsOf(r) :
                  /\ IssuedBefore(r, JobCalls(r, "before"), JobsToRun(r, "before"), w)
                  /\ \A b \in JobCalls(r, "before") : b < w /\ Settled(r, b)
            /\ \A a \in JobCalls(r, "after") :
                  /\ \A j \in DOMAIN services :
                        \E w \in WaitsOf(r) :
                           /\ w < a
                           /\ r.calls[w].cluster = services[j].ecsCluster
                           /\ services[j].serviceName \in Range(r.calls[w].services)
                  /\ \A w \in WaitsOf(r) : w < a /\ Settled(r, w)
                  /\ IssuedBefore(r, JobCalls(r, "before"), JobsToRun(r, "before"), a)
                  /\ \A b \in JobCalls(r, "before") : b < a /\ Settled(r, b)

\* C11, witness: a deploy has run a before job, waited for the services of
\* two clusters and issued the runTask of its after job.
JobPhasesOrderedWitness ==
    \E p \in Procs :
        /\ JobCalls(run[p], "before") # {}
        /\ Cardinality(WaitsOf(run[p])) = 2
        /\ \E a \in JobCalls(run[p], "after") : ~Settled(run[p], a)

TaskIds(tasks) == {tasks[i].taskId : i \in DOMAIN tasks}

\* The services of the current deployment that the desired service tasks of a
\* run do not name.
Orphans(r) ==
    {task \in Range(TasksOfType(r.currentDeployment, "service")) :
        task.taskId \notin TaskIds(r.serviceTasks)}

IsScaleToZero(call) == call.op = "updateService" /\ call.count = 0

\* updateServices of the run has resolved.
UpdateServicesResolved(r) ==
    /\ r.kind \in {"deploy", "rollback"}
    /\ \/ r.pc \in {"finalizeDeployment", "withdrawParent", "putDeployment",
                    "runJobsBefore", "settleJobsBefore", "waitForServicesStable",
                    "settleWaits", "runJobsAfter", "settleJobsAfter", "deployed",
                    "resolved", "finalizeRollback", "reactivateParent"}
       \/ r.pc = "rejected" /\ r.error \in StoreWrites

Registered(r) == r.kind = "deploy" /\ r.pc = "buildDeployableTaskItems"

RegisteredIds(r) ==
    {r.calls[i].id : i \in CallsOf(r, {"registerTaskDefinition"})}

\* The tasks of the current deployment of a type and task id.
CurrentTasks(r, taskType, taskId) ==
    {task \in Range(TasksOfType(r.currentDeployment, taskType)) : task.taskId = taskId}

KeepsRecordedArn(r, tasks, taskType) ==
    \A taskId \in DOMAIN tasks \ r.updateOnly :
       \A task \in CurrentTasks(r, taskType, taskId) :
          tasks[taskId].taskDefinitionArn = task.taskDefinitionArn

\* C13 (P3): when updateOnly is set and registration has resolved,
\* registerTaskDefinition has been invoked exactly for the active task ids
\* that updateOnly lists, and every service and job that updateOnly leaves out
\* and that the current deployment has a task for carries the arn recorded
\* for it there.
UpdateOnlyKeepsRecordedArn ==
    \A p \in Procs :
        LET r == run[p] IN
        Registered(r) /\ r.updateOnly # {Nil} =>
            /\ RegisteredIds(r) = (DOMAIN r.services \cup DOMAIN r.jobs) \cap r.updateOnly
            /\ KeepsRecordedArn(r, r.services, "service")
            /\ KeepsRecordedArn(r, r.jobs, "job")

\* The services and jobs of a run that updateOnly leaves out and that have no
\* task of their type and id in the current deployment, as <<taskType, taskId>>.
NewAndLeftOut(r) ==
    {<<"service", k>> : k \in {j \in DOMAIN r.services \ r.updateOnly :
                                 CurrentTasks(r, "service", j) = {}}}
    \cup {<<"job", k>> : k \in {j \in DOMAIN r.jobs \ r.updateOnly :
                                  CurrentTasks(r, "job", j) = {}}}

TasksOf(r, taskType) == IF taskType = "service" THEN r.services ELSE r.jobs

HasItem(tasks, taskType, taskId) ==
    \E i \in DOMAIN tasks : tasks[i].taskType = taskType /\ tasks[i].taskId = taskId

\* C14, as stated: a task that updateOnly leaves out and that has no
\* counterpart in the current deployment ends registration with an arn that
\* this deploy has registered for it.
NewTaskIsRegistered ==
    \A p \in Procs :
        LET r == run[p] IN
        Registered(r) /\ r.updateOnly # {Nil} =>
            \A new \in NewAndLeftOut(r) :
               \E i \in CallsOf(r, {"registerTaskDefinition"}) :
                  /\ r.calls[i].id = new[2]
                  /\ r.calls[i].status = "ok"
                  /\ TasksOf(r, new[1])[new[2]].taskDefinitionArn = r.calls[i].arn

\* C14, amended: a task that updateOnly leaves out and that has no counterpart
\* in the current deployment is never registered; when no task of the current
\* deployment carries its id it has no arn and is in neither the task items
\* nor the deployment of the run, otherwise it has the arn of a task of the
\* other type that carries its id.
NewTaskIsLeftOut ==
    \A p \in Procs :
        LET r == run[p]
            sameId(taskId) == {task \in Range(r.currentDeployment.tasks) :
                                  task.taskId = taskId}
        IN  r.kind = "deploy" /\ r.updateOnly # {Nil} =>
                \A new \in NewAndLeftOut(r) :
                   LET taskInfo == TasksOf(r, new[1])[new[2]] IN
                   /\ new[2] \notin RegisteredIds(r)
                   /\ IF sameId(new[2]) = {}
                      THEN /\ taskInfo.taskDefinitionArn = NoArn
                           /\ ~HasItem(r.serviceTasks \o r.jobTasks, new[1], new[2])
                           /\ ~HasItem(r.deployment.tasks, new[1], new[2])
                      ELSE taskInfo.taskDefinitionArn
                              \in {NoArn} \cup {task.taskDefinitionArn : task \in sameId(new[2])}

\* C14, witness: a deploy with updateOnly over an active deployment has put its
\* record, and its manifest has a job that no task of the current deployment
\* is named like.
NewTaskIsLeftOutWitness ==
    \E p \in Procs :
        /\ Finalized(run[p])
        /\ run[p].updateOnly # {Nil}
        /\ run[p].currentDeployment.active = 1
        /\ \E new \in NewAndLeftOut(run[p]) :
              /\ new[1] = "job"
              /\ \A task \in Range(run[p].currentDeployment.tasks) : task.taskId # new[2]

\* The entries of a dictionary of the manifest that are switched off.
Inactive(tasks) == {k \in DOMAIN tasks : tasks[k].active = "false"}

\* The entries whose active attribute is given and falsy.
Pruned(tasks) == {k \in DOMAIN tasks : tasks[k].active \in {"false", "null", "0"}}

\* The services and jobs that the manifest of a run switches off, as
\* <<taskType, taskId>>.
SwitchedOff(r) ==
    {<<"service", k>> : k \in Inactive(r.given.services)}
    \cup {<<"job", k>> : k \in Inactive(r.given.jobs)}

\* The ids of the active entries of the other dictionary of the manifest.
ActiveIdsOfOtherType(r, taskType) ==
    IF taskType = "service" THEN DOMAIN r.given.jobs \ Pruned(r.given.jobs)
    ELSE DOMAIN r.given.services \ Pruned(r.given.services)

\* C15 (P2): a service or job of the manifest with active = false is in
\* neither serviceTasks nor jobTasks, no task definition is registered for
\* it, and it is not among the tasks of the deployment the run assembles,
\* puts and resolves with.
ActiveSetExclusion ==
    \A p \in Procs :
        LET r == run[p] IN
        r.kind = "deploy" =>
            \A off \in SwitchedOff(r) :
               /\ ~HasItem(r.serviceTasks \o r.jobTasks, off[1], off[2])
               /\ off[2] \notin ActiveIdsOfOtherType(r, off[1]) =>
                     off[2] \notin RegisteredIds(r)
               /\ ~HasItem(r.deployment.tasks, off[1], off[2])
               /\ ~HasItem(r.result.tasks, off[1], off[2])
               /\ ~HasItem(written[r.deploymentTimestamp].tasks, off[1], off[2])
               /\ ~HasItem(store[r.deploymentTimestamp].tasks, off[1], off[2])

\* C15, witness: a deploy whose manifest switches a service and a job off has
\* put its deployment, with the tasks of the other service and job.
ActiveSetExclusionWitness ==
    \E p \in Procs :
        /\ Finalized(run[p])
        /\ Inactive(run[p].given.services) # {}
        /\ Inactive(run[p].given.jobs) # {}
        /\ Len(store[run[p].deploymentTimestamp].tasks) = 2

\* A step of process p from one position of the chain to another.
Moves(p, from, to) == run[p].pc = from /\ run'[p].pc = to

\* C16 (P1), as stated: pruning and building the task items leave the
\* services and jobs of the options as they were, and building again from the
\* options yields the same serviceTasks and jobTasks.
BuildHasNoSideEffects ==
    [][\A p \in Procs :
          Moves(p, "pruneTasks", "buildImages")
             \/ Moves(p, "buildDeployableTaskItems", "updateServices") =>
                /\ run'[p].services = run[p].services
                /\ run'[p].jobs = run[p].jobs
                /\ Moves(p, "buildDeployableTaskItems", "updateServices") =>
                      /\ BuildServiceTasks(run'[p]) = run'[p].serviceTasks
                      /\ BuildJobTasks(run'[p]) = run'[p].jobTasks]_vars

\* tasks2 is tasks without its entries with a falsy active attribute, the
\* others as they were.
IsPruned(tasks, tasks2) ==
    /\ DOMAIN tasks2 = DOMAIN tasks \ Pruned(tasks)
    /\ \A k \in DOMAIN tasks2 : tasks2[k] = tasks[k]

\* C16, amended: pruneTasks takes the entries with a falsy active out of the
\* services and jobs of the options and leaves the others as they were;
\* buildDeployableTaskItems leaves services and jobs as they are; pruning or
\* building again from the options the step has left yields the same services,
\* jobs, serviceTasks and jobTasks.
BuildWorksInPlace ==
    [][\A p \in Procs :
          /\ Moves(p, "pruneTasks", "buildImages") =>
                /\ IsPruned(run[p].services, run'[p].services)
                /\ IsPruned(run[p].jobs, run'[p].jobs)
                /\ IsPruned(run'[p].services, run'[p].services)
                /\ IsPruned(run'[p].jobs, run'[p].jobs)
          /\ Moves(p, "buildDeployableTaskItems", "updateServices") =>
                /\ run'[p].services = run[p].services
                /\ run'[p].jobs = run[p].jobs
                /\ BuildServiceTasks(run'[p]) = run'[p].serviceTasks
                /\ BuildJobTasks(run'[p]) = run'[p].jobTasks]_vars

\* C16, witness: the task items have just been built from a manifest that
\* switched a service off; the options hold fewer services than the manifest.
BuildWorksInPlaceWitness ==
    \E p \in Procs :
        /\ run[p].pc = "updateServices"
        /\ run[p].idx = 1
        /\ run[p].serviceTasks # <<>>
        /\ Inactive(run[p].given.services) # {}
        /\ DOMAIN run[p].services # DOMAIN run[p].given.services

\* The entries of a dictionary of the options that have an arn.
Resolved(tasks) == {k \in DOMAIN tasks : tasks[k].taskDefinitionArn # NoArn}

ItemIds(tasks, taskType) ==
    {tasks[i].taskId : i \in {j \in DOMAIN tasks : tasks[j].taskType = taskType}}

\* C17: every task item of every record a deploy has put, and of the record
\* in the table, carries an arn; the record of a run holds the services and
\* jobs of its options that have an arn, each with that arn, and none of
\* those that have none.
PersistedTasksHaveArn ==
    /\ \A t \in Timestamps :
          /\ \A i \in DOMAIN written[t].tasks : written[t].tasks[i].taskDefinitionArn # NoArn
          /\ \A i \in DOMAIN store[t].tasks : store[t].tasks[i].taskDefinitionArn # NoArn
    /\ \A p \in Procs :
          LET r == run[p]
              tasks == written[r.deploymentTimestamp].tasks
          IN  Finalized(r) =>
                 /\ ItemIds(tasks, "service") = Resolved(r.services)
                 /\ ItemIds(tasks, "job") = Resolved(r.jobs)
                 /\ \A i \in DOMAIN tasks :
                       tasks[i].taskDefinitionArn =
                          TasksOf(r, tasks[i].taskType)[tasks[i].taskId].taskDefinitionArn

\* C17, witness: a deploy with updateOnly over an active deployment has put a
\* record with tasks while a job of its options has no arn.
PersistedTasksHaveArnWitness ==
    \E p \in Procs :
        /\ Finalized(run[p])
        /\ run[p].updateOnly # {Nil}
        /\ run[p].currentDeployment.active = 1
        /\ Resolved(run[p].jobs) # DOMAIN run[p].jobs
        /\ written[run[p].deploymentTimestamp].tasks # <<>>

\* runOnDeployJobs of the run has resolved.
JobsDone(r) == r.pc \in {"deployed", "resolved"}

\* The record the deploy has put is in the table as put, and active.
RecordStands(r) ==
    /\ store[r.deploymentTimestamp] = r.result
    /\ r.result.deploymentTimestamp = r.deploymentTimestamp
    /\ r.result.active = 1

\* C18: a deploy of which a runTask of an on-deploy job has failed is not
\* rejected and its record stands; when runOnDeployJobs has resolved, a
\* runTask has been issued for every before job and every after job of the
\* deployment, and the deploy ends resolved.
JobFailuresAreNotFatal ==
    \A p \in Procs :
        LET r == run[p] IN
        r.kind = "deploy" /\ FailedCallsOf(r, {"runTask"}) # {} =>
            /\ r.pc # "rejected"
            /\ r.error = Nil
            /\ RecordStands(r)
            /\ JobsDone(r) =>
                  /\ IssuedBefore(r, JobCalls(r, "before"), JobsToRun(r, "before"),
                                  Len(r.calls) + 1)
                  /\ IssuedBefore(r, JobCalls(r, "after"), JobsToRun(r, "after"),
                                  Len(r.calls) + 1)
            /\ r.pc = "resolved" => r.outcome = "resolved"

\* C18, witness: a deploy has resolved after the runTask of its before job
\* failed and the runTask of its after job succeeded.
JobFailuresAreNotFatalWitness ==
    \E p \in Procs :
        /\ run[p].pc = "resolved"
        /\ \E b \in JobCalls(run[p], "before") : run[p].calls[b].status = "error"
        /\ \E a \in JobCalls(run[p], "after") : run[p].calls[a].status = "ok"

\* A waitForServicesStable of the run names the service on its cluster.
WaitedFor(r, service) ==
    \E w \in WaitsOf(r) :
       /\ r.calls[w].cluster = service.ecsCluster
       /\ service.serviceName \in Range(r.calls[w].services)

\* C19: a deploy of which a waitForServicesStable has failed is not rejected
\* and its record stands; every service of the deployment is named by a wait
\* issued on its cluster; and when runOnDeployJobs has resolved every wait has
\* called back and the after jobs have been started.
WaitFailuresAreNotFatal ==
    \A p \in Procs :
        LET r == run[p] IN
        FailedCallsOf(r, {"waitForServicesStable"}) # {} =>
            /\ r.kind = "deploy"
            /\ r.pc # "rejected"
            /\ r.error = Nil
            /\ RecordStands(r)
            /\ \A service \in Range(TasksOfType(r.result, "service")) : WaitedFor(r, service)
            /\ JobsDone(r) =>
                  /\ \A w \in WaitsOf(r) : Settled(r, w)
                  /\ IssuedBefore(r, JobCalls(r, "after"), JobsToRun(r, "after"),
                                  Len(r.calls) + 1)
            /\ r.pc = "resolved" => r.outcome = "resolved"

\* C19, witness: a deploy has resolved after the wait of one cluster failed
\* and the wait of the other cluster succeeded.
WaitFailuresAreNotFatalWitness ==
    \E p \in Procs :
        /\ run[p].pc = "resolved"
        /\ \E v, w \in WaitsOf(run[p]) :
              /\ run[p].calls[v].status = "error"
              /\ run[p].calls[w].status = "ok"
              /\ run[p].calls[v].cluster # run[p].calls[w].cluster

ImageOps == {"findOrCreateECRRepository", "build", "pushImage"}

\* The image ids of the calls of a run with an operation among ops, in the
\* order the calls were made.
ImageIdsOf(r, ops) ==
    LET made == SelectSeq(r.calls, LAMBDA call : call.op \in ops)
    IN  [i \in DOMAIN made |-> made[i].id]

IsPrefix(s, t) == Len(s) <= Len(t) /\ \A i \in DOMAIN s : s[i] = t[i]

\* The images of the configuration, each named twice in a row.
RECURSIVE Twice(_)
Twice(images) ==
    IF images = <<>> THEN <<>> ELSE <<Head(images), Head(images)>> \o Twice(Tail(images))

\* C20: at most one repository lookup, build or push of a run is pending;
\* a lookup, build or push is made only when every earlier one has succeeded;
\* lookup and build alternate, image by image in the order of the
\* configuration, a lookup first; and the pushes follow that order as well.
ImagePipelineSequenced ==
    \A p \in Procs :
        LET r == run[p]
            made == SelectSeq(r.calls, LAMBDA call : call.op \in {"findOrCreateECRRepository", "build"})
        IN  /\ Cardinality({i \in CallsOf(r, ImageOps) : ~Settled(r, i)}) <= 1
            /\ \A i, j \in CallsOf(r, ImageOps) : i < j => r.calls[i].status = "ok"
            /\ IsPrefix(ImageIdsOf(r, {"findOrCreateECRRepository", "build"}), Twice(r.images))
            /\ \A i \in DOMAIN made :
                  made[i].op = IF i % 2 = 1 THEN "findOrCreateECRRepository" ELSE "build"
            /\ IsPrefix(ImageIdsOf(r, {"pushImage"}), r.images)

\* C20, witness: the push of the second image is pending, after the lookup,
\* build and push of the images before it.
ImagePipelineSequencedWitness ==
    \E p \in Procs :
        /\ run[p].pc = "pushImage"
        /\ \E i \in run[p].pending : run[p].calls[i].id = "i2"
        /\ Cardinality(CallsOf(run[p], ImageOps)) = 6

\* C21: when a repository lookup, build or push of a run has failed, it is the
\* last call of the run, the run is rejected with the error of that call, no
\* task definition has been registered, no service call and no store write
\* has been made, no deployment has been assembled and the table is as the
\* run found it.
ImagePipelineFailsFast ==
    \A p \in Procs :
        LET r == run[p] IN
        \A i \in FailedCallsOf(r, ImageOps) :
            /\ i = Len(r.calls)
            /\ r.pc = "rejected"
            /\ r.error = r.calls[i].op
            /\ r.pending = {}
            /\ CallsOf(r, {"registerTaskDefinition"}) = {}
            /\ CallsOf(r, ServiceOps) = {}
            /\ CallsOf(r, StoreWrites) = {}
            /\ r.deployment = NoDeployment
            /\ store = r.storeAtStart

\* C21, witness: the build of the second image has failed after the first
\* image was built, over a table that holds an active deployment.
ImagePipelineFailsFastWitness ==
    \E p \in Procs :
        /\ \E i \in FailedCallsOf(run[p], {"build"}) : run[p].calls[i].id = "i2"
        /\ run[p].currentDeployment.active = 1

\* The tasks of the current deployment of a run that are a job of this name.
JobsNamed(r, jobName) == CurrentTasks(r, "job", jobName)

\* The run has passed the lookup of its job.
LookedUp(r) ==
    /\ r.kind = "runJob"
    /\ \/ r.pc = "resolved"
       \/ r.pc = "rejected" /\ r.error \in {"runTask", "No Job Found"}

\* C22: a run of runJob issues runTask at most once and makes no other call
\* on the cluster and no store write; once past the lookup it has issued
\* exactly one runTask, with the cluster and the arn of the job of that name
\* in the current deployment, when there is such a job, and has issued none
\* and is rejected with 'No Job Found' when there is none.
RunJobNow ==
    \A p \in Procs :
        LET r == run[p] IN
        r.kind = "runJob" =>
            /\ CallsOf(r, ClusterOps \cup StoreWrites) = CallsOf(r, {"runTask"})
            /\ Cardinality(CallsOf(r, {"runTask"})) <= 1
            /\ \A i \in CallsOf(r, {"runTask"}) :
                  \E task \in JobsNamed(r, r.job) :
                     /\ r.calls[i].id = r.job
                     /\ r.calls[i].cluster = task.ecsCluster
                     /\ r.calls[i].arn = task.taskDefinitionArn
            /\ LookedUp(r) =>
                  IF JobsNamed(r, r.job) # {}
                  THEN /\ Cardinality(CallsOf(r, {"runTask"})) = 1
                       /\ r.error # "No Job Found"
                       /\ r.pc = "resolved" <=> FailedCallsOf(r, {"runTask"}) = {}
                  ELSE /\ CallsOf(r, {"runTask"}) = {}
                       /\ r.pc = "rejected"
                       /\ r.error = "No Job Found"

\* C22, witness: the job has been run under a name that a service of the
\* current deployment carries as well.
RunJobNowWitness ==
    \E p \in Procs :
        /\ run[p].kind = "runJob"
        /\ run[p].pc = "resolved"
        /\ CurrentTasks(run[p], "service", run[p].job) # {}
        /\ CallsOf(run[p], {"runTask"}) # {}

\* C22, second witness: the name is the name of a service only, and the run
\* is rejected.
RunJobNowServiceWitness ==
    \E p \in Procs :
        /\ LookedUp(run[p])
        /\ run[p].currentDeployment.active = 1
        /\ CurrentTasks(run[p], "service", run[p].job) # {}
        /\ JobsNamed(run[p], run[p].job) = {}

\* The command of the run has ended.
Ended(r) == r.exitStatus # NoCount

\* C23: when the command of a run has ended, its exit status is not 0 and a
\* message has been logged if the pipeline was rejected, and its exit status
\* is 0 if the pipeline resolved.
ExitStatusTellsRejection ==
    \A p \in Procs :
        LET r == run[p] IN
        Ended(r) =>
            /\ r.pc = "rejected" => r.exitStatus # 0 /\ r.logged \notin {Nil, "undefined"}
            /\ r.pc = "resolved" => r.exitStatus = 0

\* The tick of the run has gone through its scans.
TickScanned(r) == r.kind = "runCronJobs" /\ r.pc = "scanned"

ScansSucceeded(r) == FailedCallsOf(r, {"scan"}) = {}

\* The tasks of the table that are due at time: those of an item with
\* active = 1 that carry a schedule valid at time, as <<key, position>>.
DueTasks(table, time) ==
    {tj \in Timestamps \X (1 .. Len(JobIds) + Len(ServiceIds)) :
        /\ table[tj[1]].deploymentTimestamp # 0
        /\ table[tj[1]].active = 1
        /\ tj[2] \in DOMAIN table[tj[1]].tasks
        /\ table[tj[1]].tasks[tj[2]].schedule # Nil
        /\ isScheduled(table[tj[1]].tasks[tj[2]], time)}

Dispatches(r, task) ==
    {i \in CallsOf(r, {"runTask"}) :
        /\ r.calls[i].id = task.taskId
        /\ r.calls[i].cluster = task.ecsCluster
        /\ r.calls[i].arn = task.taskDefinitionArn}

DueLike(table, time, task) ==
    {tj \in DueTasks(table, time) :
        LET other == table[tj[1]].tasks[tj[2]] IN
        /\ other.taskId = task.taskId
        /\ other.ecsCluster = task.ecsCluster
        /\ other.taskDefinitionArn = task.taskDefinitionArn}

DispatchedOncePerDueTask(r) ==
    /\ \A tj \in DueTasks(store, r.time) :
          LET task == store[tj[1]].tasks[tj[2]] IN
          Cardinality(Dispatches(r, task)) = Cardinality(DueLike(store, r.time, task))
    /\ Cardinality(CallsOf(r, {"runTask"})) = Cardinality(DueTasks(store, r.time))

OnDeployJobs(deployment) ==
    {j \in DOMAIN deployment.tasks :
        /\ deployment.tasks[j].taskType = "job"
        /\ deployment.tasks[j].runOnDeploy \in {"before", "after"}}

\* C25: a rollback run has issued no runTask call, whatever on-deploy jobs the
\* current and the parent deployment carry.
RollbackRunsNoJobs ==
    \A p \in Procs :
        run[p].kind = "rollback" => CallsOf(run[p], {"runTask"}) = {}

\* A rollback has resolved from a deployment with on-deploy jobs to a parent
\* with on-deploy jobs of both phases.
RollbackRunsNoJobsWitness ==
    \E p \in Procs :
        LET r == run[p] IN
        /\ r.kind = "rollback" /\ r.pc = "resolved"
        /\ OnDeployJobs(r.currentDeployment) # {}
        /\ \E j, k \in OnDeployJobs(r.parentDeployment) :
              /\ r.parentDeployment.tasks[j].runOnDeploy = "before"
              /\ r.parentDeployment.tasks[k].runOnDeploy = "after"
        /\ CallsOf(r, ServiceOps) # {}

\* Two deploys of one environment that have both put their Deployment, each
\* having read the current deployment before the other put its own.
Overlapped(r1, r2) ==
    /\ r1.kind = "deploy" /\ r2.kind = "deploy"
    /\ r1.environment = r2.environment
    /\ r1.deploymentTimestamp # r2.deploymentTimestamp
    /\ Finalized(r1) /\ Finalized(r2)
    /\ r1.storeAtRead[r2.deploymentTimestamp].deploymentTimestamp = 0
    /\ r2.storeAtRead[r1.deploymentTimestamp].deploymentTimestamp = 0

\* C26: when two deploys of one environment have overlapped, the Deployment of
\* each is in the table with active = 1: nothing withdraws the one for the
\* other.
OverlappedDeploysAreBothActive ==
    \A p, q \in Procs :
        Overlapped(run[p], run[q]) =>
            /\ store[run[p].deploymentTimestamp].active = 1
            /\ store[run[q].deploymentTimestamp].active = 1
            /\ store[run[p].deploymentTimestamp].environment
                 = store[run[q].deploymentTimestamp].environment

\* Two deploys have overlapped and two items of the environment have active = 1.
OverlappedDeploysAreBothActiveWitness ==
    /\ \E p, q \in Procs : Overlapped(run[p], run[q])
    /\ \E env \in Environments : Cardinality(ActiveDeployments(env)) = 2

\* The item but for its active flag.
WithoutActive(item) == [item EXCEPT !.active = 0]

\* C27: an item of the table stays in the table, and no step changes a field
\* of it other than active.
HistoryIsAppendOnly ==
    [][\A t \in Timestamps :
          store[t].deploymentTimestamp # 0 =>
             /\ store'[t].deploymentTimestamp = t
             /\ WithoutActive(store'[t]) = WithoutActive(store[t])]_vars

\* After a deploy over a deployment and a rollback, both items are in the table
\* as they were put but for the flag, which has changed on one of them.
HistoryIsAppendOnlyWitness ==
    /\ \E p \in Procs : RolledBack(run[p])
    /\ \E t, u \in Timestamps :
          /\ t # u
          /\ store[t].deploymentTimestamp = t /\ store[u].deploymentTimestamp = u
          /\ store[t].environment = store[u].environment
          /\ store[t].tasks # <<>>
          /\ WithoutActive(store[t]) = WithoutActive(written[t])
          /\ WithoutActive(store[u]) = WithoutActive(written[u])
          /\ store[t].active # written[t].active

DesiredIds(r) == {r.serviceTasks[j].taskId : j \in DOMAIN r.serviceTasks}

\* C28: the step that follows a describe that succeeded issues one call for
\* the described service and not two: updateService with the arn of the
\* desired task and no count when the service was found ACTIVE, createService
\* otherwise; no step issues an updateService with a count for a service the
\* run desires.
DescribedServiceGetsOneCall ==
    [][\A p \in Procs :
          LET r == run[p] IN
          /\ r.pc = "describedService" /\ run'[p] # r =>
                LET serviceTask == r.serviceTasks[r.idx] IN
                /\ Cardinality(IssuedCalls(p)) = 1
                /\ \A i \in IssuedCalls(p) :
                      LET call == run'[p].calls[i] IN
                      /\ call.id = serviceTask.taskId
                      /\ call.cluster = serviceTask.ecsCluster
                      /\ call.arn = serviceTask.taskDefinitionArn
                      /\ IF r.serviceInfo = "ACTIVE"
                         THEN call.op = "updateService" /\ call.count = NoCount
                         ELSE call.op = "createService"
                /\ \A i \in CallsOf(r, {"createService", "updateService"}) :
                      r.calls[i].id # serviceTask.taskId
          /\ \A i \in IssuedCalls(p) :
                LET call == run'[p].calls[i] IN
                call.op = "updateService" /\ call.id \in DesiredIds(run'[p]) =>
                    call.count = NoCount]_vars

\* A rollback has resolved after a describe that found a service ACTIVE was
\* followed by an updateService without count, and one that did not by a
\* createService.
DescribedServiceGetsOneCallWitness ==
    \E p \in Procs :
        LET r == run[p] IN
        /\ r.kind = "rollback" /\ r.pc = "resolved"
        /\ \E i, j \in CallsOf(r, {"describeService"}) :
              /\ r.calls[i].status = "ok" /\ r.calls[j].status = "ok"
              /\ r.calls[i + 1].op = "updateService"
              /\ r.calls[i + 1].count = NoCount
              /\ r.calls[i + 1].arn # NoArn
              /\ r.calls[j + 1].op = "createService"

\* The setActive calls of the run, as positions of its call log.
SetActiveCalls(r) == CallsOf(r, {"update"})

\* Before call k every desired service of the run was described and then
\* created or updated, both with success.
ReappliedBefore(r, k) ==
    \A j \in DOMAIN r.serviceTasks :
        \E i \in ServiceCallsOf(r, r.serviceTasks[j].taskId) :
            /\ i + 1 < k
            /\ r.calls[i].op = "describeService" /\ r.calls[i].status = "ok"
            /\ IsServiceUpdate(r.calls[i + 1]) /\ r.calls[i + 1].status = "ok"
            /\ r.calls[i + 1].id = r.serviceTasks[j].taskId

\* C29: in a rollback, a setActive call is issued only after every service of
\* the parent was re-applied and no service call failed; with a failed service
\* call there is none and the table is as the run found it; the first setActive
\* is on the current deployment, a second one follows only the success of the
\* first, only when a parent item was read, and is on the parent; there is no
\* third.
RollbackFlipsAfterReconciliation ==
    \A p \in Procs :
        LET r == run[p] IN
        r.kind = "rollback" =>
            /\ FailedCallsOf(r, ServiceOps) # {} =>
                  SetActiveCalls(r) = {} /\ store = r.storeAtStart
            /\ \A k \in SetActiveCalls(r) :
                  /\ ReappliedBefore(r, k)
                  /\ \A i \in CallsOf(r, ServiceOps) : i < k
            /\ Cardinality(SetActiveCalls(r)) <= 2
            /\ \A k \in SetActiveCalls(r) :
                  IF \A i \in SetActiveCalls(r) : k <= i
                  THEN r.calls[k].id = r.currentDeployment.deploymentTimestamp
                  ELSE /\ r.calls[k - 1].op = "update" /\ r.calls[k - 1].status = "ok"
                       /\ r.parentDeployment # NoDeployment
                       /\ r.calls[k].id = r.parentDeployment.deploymentTimestamp
                       /\ r.calls[k].id # r.currentDeployment.deploymentTimestamp
            /\ r.pc = "resolved" /\ r.parentDeployment # NoDeployment =>
                  Cardinality(SetActiveCalls(r)) = 2

\* A rollback to a parent with services has resolved with its two setActive
\* calls.
RollbackFlipsAfterReconciliationWitness ==
    \E p \in Procs :
        LET r == run[p] IN
        /\ r.kind = "rollback" /\ r.pc = "resolved"
        /\ r.parentDeployment # NoDeployment
        /\ Len(r.serviceTasks) >= 2
        /\ Cardinality(SetActiveCalls(r)) = 2
        /\ store[r.currentDeployment.deploymentTimestamp].active = 0
        /\ store[r.parentDeployment.deploymentTimestamp].active = 1

\* A rollback has been rejected by a service call that failed, with the table
\* as it was.
RollbackRejectedByServiceWitness ==
    \E p \in Procs :
        LET r == run[p] IN
        /\ r.kind = "rollback" /\ r.pc = "rejected"
        /\ FailedCallsOf(r, {"createService", "updateService"}) # {}
        /\ r.currentDeployment.active = 1
        /\ store = r.storeAtStart

\* The writes of the finalizer of the run, as positions of its call log.
FinalizerCalls(r) == CallsOf(r, StoreWrites)

\* C30 as stated: when the finalizer of a deploy or rollback with desired
\* services has issued a write, a waitForServicesStable was issued before it,
\* after the services were created or updated.
ReconcilerEndsWithWait ==
    \A p \in Procs :
        LET r == run[p] IN
        r.kind \in {"deploy", "rollback"} /\ r.serviceTasks # <<>> =>
            \A k \in FinalizerCalls(r) :
                \E w \in WaitsOf(r) :
                    /\ w < k
                    /\ \A i \in CallsOf(r, {"createService", "updateService"}) : i < w

\* C30: updateServices issues no stability wait.  A rollback issues none at
\* all; in a deploy every waitForServicesStable comes after the put of the
\* Deployment has succeeded, and so after every service call.
WaitComesAfterFinalize ==
    \A p \in Procs :
        LET r == run[p] IN
        /\ r.kind = "rollback" => WaitsOf(r) = {}
        /\ r.kind = "deploy" =>
              \A w \in WaitsOf(r) :
                  /\ \E k \in CallsOf(r, {"put"}) : k < w /\ r.calls[k].status = "ok"
                  /\ \A i \in CallsOf(r, ServiceOps) : i < w

\* A rollback has created or updated the services of the parent and flipped
\* both flags without a stability wait.
WaitComesAfterFinalizeWitness ==
    \E p \in Procs :
        LET r == run[p] IN
        /\ r.kind = "rollback"
        /\ r.serviceTasks # <<>>
        /\ \E i \in CallsOf(r, {"createService", "updateService"}) :
              r.calls[i].status = "ok"
        /\ \E k \in FinalizerCalls(r) :
              /\ r.calls[k].id = r.parentDeployment.deploymentTimestamp
              /\ r.calls[k].status = "ok"
        /\ WaitsOf(r) = {}

\* A deploy has waited for its services after its Deployment was put.
DeployWaitsAfterPutWitness ==
    \E p \in Procs :
        LET r == run[p] IN
        /\ r.kind = "deploy" /\ r.pc = "resolved"
        /\ WaitsOf(r) # {}
        /\ \A w \in WaitsOf(r) : \E k \in CallsOf(r, {"put"}) : k < w

\* The waits of the run have been issued.
WaitsIssued(r) ==
    /\ r.kind = "deploy"
    /\ r.pc \in {"settleWaits", "runJobsAfter", "settleJobsAfter", "deployed", "resolved"}

\* The places where a wait of the run names the service: <<call, position>>.
NamedAt(r, service) ==
    {wk \in WaitsOf(r) \X (1 .. ChunkSize + MaxServices) :
        /\ wk[2] \in DOMAIN r.calls[wk[1]].services
        /\ r.calls[wk[1]].services[wk[2]] = service.serviceName}

\* C31: when the waits have been issued, every waitForServicesStable names at
\* least one and at most 10 services, all of them services of the Deployment on
\* the cluster of the call, and every service of the Deployment is named once,
\* by one call.
WaitsAreBatchedPerCluster ==
    \A p \in Procs :
        LET r == run[p]
            services == TasksOfType(r.result, "service")
        IN  WaitsIssued(r) =>
               /\ \A w \in WaitsOf(r) :
                     /\ Len(r.calls[w].services) \in 1 .. 10
                     /\ \A k \in DOMAIN r.calls[w].services :
                           \E j \in DOMAIN services :
                              /\ services[j].serviceName = r.calls[w].services[k]
                              /\ services[j].ecsCluster = r.calls[w].cluster
               /\ \A j \in DOMAIN services :
                     Cardinality(NamedAt(r, services[j])) = 1

\* A Deployment with more than 10 services on one cluster and some on another
\* has got a wait of 10 services, a second wait on the same cluster, and a wait
\* on the other cluster.
WaitsAreBatchedPerClusterWitness ==
    \E p \in Procs :
        LET r == run[p] IN
        /\ WaitsIssued(r)
        /\ \E u, v, w \in WaitsOf(r) :
              /\ u # v
              /\ r.calls[u].cluster = r.calls[v].cluster
              /\ Len(r.calls[u].services) = 10
              /\ r.calls[w].cluster # r.calls[u].cluster

\* C32: a createService of a deploy or rollback carries the initialCount of
\* the template of the service when one is given, 0 included, and 1 when none
\* is given.
CreateCarriesInitialCount ==
    \A p \in Procs :
        LET r == run[p] IN
        r.kind \in {"deploy", "rollback"} =>
            \A i \in CallsOf(r, {"createService"}) :
                LET initialCount == r.services[r.calls[i].id].initialCount IN
                r.calls[i].count = IF initialCount = NoCount THEN 1 ELSE initialCount

\* The deploy has pruned its options and has not been rejected.
HasPruned(r) ==
    /\ r.kind = "deploy"
    /\ r.pc \notin {"setup", "getCurrentDeployment", "pruneTasks", "rejected"}

\* The deploy has built its task items and has not been rejected.
HasBuilt(r) ==
    /\ HasPruned(r)
    /\ r.pc \in {"updateServices", "describedService", "removeServices"}
       \/ UpdateServicesResolved(r)

WithArn(tasks) == {k \in DOMAIN tasks : tasks[k].taskDefinitionArn # NoArn}

\* C33 as stated: only the entries of the manifest with active = false are
\* taken out by the pruning, and an item is built for every other entry that
\* has got a taskDefinitionArn.
OnlyFalseRemovesAnEntry ==
    \A p \in Procs :
        LET r == run[p] IN
        /\ HasPruned(r) =>
              /\ DOMAIN r.services = DOMAIN r.given.services \ Inactive(r.given.services)
              /\ DOMAIN r.jobs = DOMAIN r.given.jobs \ Inactive(r.given.jobs)
        /\ HasBuilt(r) =>
              /\ TaskIds(r.serviceTasks) = WithArn(r.services)
              /\ TaskIds(r.jobTasks) = WithArn(r.jobs)

\* C33: the entries of the manifest whose active attribute is given and falsy
\* (false, null, 0) are taken out by the pruning, those without the attribute
\* or with a truthy one are kept, and an item is built for every kept entry
\* that has got a taskDefinitionArn, and for no other.
FalsyActiveRemovesAnEntry ==
    \A p \in Procs :
        LET r == run[p] IN
        /\ HasPruned(r) =>
              /\ DOMAIN r.services = DOMAIN r.given.services \ Pruned(r.given.services)
              /\ DOMAIN r.jobs = DOMAIN r.given.jobs \ Pruned(r.given.jobs)
              /\ \A k \in DOMAIN r.given.jobs :
                    r.given.jobs[k].active \in {"undefined", "true"} => k \in DOMAIN r.jobs
        /\ HasBuilt(r) =>
              /\ TaskIds(r.serviceTasks) = WithArn(r.services)
              /\ TaskIds(r.jobTasks) = WithArn(r.jobs)

\* A deploy has resolved with an item for a job without the active attribute
\* and none for a job with active = null.
FalsyActiveRemovesAnEntryWitness ==
    \E p \in Procs :
        LET r == run[p] IN
        /\ HasBuilt(r) /\ r.pc = "resolved"
        /\ \E k, n \in DOMAIN r.given.jobs :
              /\ r.given.jobs[k].active = "undefined"
              /\ k \in TaskIds(r.jobTasks)
              /\ r.given.jobs[n].active = "null"
              /\ r.given.jobs[n].hasTaskTemplate
              /\ n \notin TaskIds(r.jobTasks)

\* A deploy has resolved with no item for a job with active = 0.
ZeroActiveRemovesAnEntryWitness ==
    \E p \in Procs :
        LET r == run[p] IN
        /\ HasBuilt(r) /\ r.pc = "resolved"
        /\ \E n \in DOMAIN r.given.jobs :
              /\ r.given.jobs[n].active = "0"
              /\ n \notin TaskIds(r.jobTasks)

\* The runTask calls of a tick whose callback ran in the step.
CalledBack(r, r2) ==
    {i \in CallsOf(r, {"runTask"}) : i \in r.pending /\ i \notin r2.pending}

\* C34: within a tick no dispatch waits for an earlier one and no failed
\* runTask keeps another due task from being dispatched: the next page can be
\* scanned whatever calls are pending or have failed, the callback of a
\* runTask changes nothing of the tick but the status of its own call, and a
\* tick whose scans all succeeded has sent runTask for every due task even
\* when some of them failed.
DispatchIsFireAndForget ==
    /\ [](\A p \in Procs :
            run[p].kind = "runCronJobs" /\ run[p].pc = "scan" => ENABLED Scan(p))
    /\ [](\A p \in Procs :
            /\ TickScanned(run[p]) /\ ScansSucceeded(run[p])
            /\ FailedCallsOf(run[p], {"runTask"}) # {}
            => \A tj \in DueTasks(store, run[p].time) :
                  Dispatches(run[p], store[tj[1]].tasks[tj[2]]) # {})
    /\ [][\A p \in Procs :
            LET r == run[p]
                r2 == run'[p]
            IN  r.kind = "runCronJobs" /\ CalledBack(r, r2) # {} =>
                  /\ Cardinality(CalledBack(r, r2)) = 1
                  /\ r2.pc = r.pc
                  /\ r2.LastEvaluatedKey = r.LastEvaluatedKey
                  /\ Len(r2.calls) = Len(r.calls)
                  /\ \A i \in DOMAIN r.calls \ CalledBack(r, r2) :
                        r2.calls[i] = r.calls[i]]_vars

\* A tick sent a runTask that failed, then scanned the next page and sent a
\* runTask for a task of that page while another call was still pending.
DispatchIsFireAndForgetWitness ==
    \E p \in Procs :
        LET r == run[p] IN
        /\ r.kind = "runCronJobs"
        /\ \E i, s, j \in DOMAIN r.calls :
              /\ i < s /\ s < j
              /\ r.calls[i].op = "runTask" /\ r.calls[i].status = "error"
              /\ r.calls[s].op = "scan"
              /\ r.calls[j].op = "runTask"
        /\ Cardinality(r.pending) >= 2

\* The task ids that a run has as a service and as a job, that updateOnly
\* leaves out, and that the current deployment has as a service and as a job.
SharedAndLeftOut(r) ==
    {taskId \in (DOMAIN r.services \cap DOMAIN r.jobs) \ r.updateOnly :
        /\ CurrentTasks(r, "service", taskId) # {}
        /\ CurrentTasks(r, "job", taskId) # {}}

\* C35: when registration has resolved with updateOnly set, a service and a
\* job that share a task id that updateOnly leaves out each carry the arn of
\* the task of their own type in the current deployment: the service the arn
\* of the current service, the job the arn of the current job.
ReuseRespectsTaskType ==
    \A p \in Procs :
        LET r == run[p] IN
        Registered(r) /\ r.updateOnly # {Nil} =>
            \A taskId \in SharedAndLeftOut(r) :
                /\ \A task \in CurrentTasks(r, "service", taskId) :
                      r.services[taskId].taskDefinitionArn = task.taskDefinitionArn
                /\ \A task \in CurrentTasks(r, "job", taskId) :
                      r.jobs[taskId].taskDefinitionArn = task.taskDefinitionArn

\* The services of the current deployment that the desired service tasks of a
\* run do not run in the same cluster.
GoneFromCluster(r) ==
    {task \in Range(TasksOfType(r.currentDeployment, "service")) :
        ~\E i \in DOMAIN r.serviceTasks :
            /\ r.serviceTasks[i].taskId = task.taskId
            /\ r.serviceTasks[i].ecsCluster = task.ecsCluster}

\* C36: when a deploy has resolved, every service of the deployment that was
\* current at its start, taken by name and cluster, that the deploy does not
\* run in that cluster has been scaled to zero and deleted there, a service
\* whose task id is kept in another cluster included.
ServicesGoneFromClusterTornDown ==
    \A p \in Procs :
        LET r == run[p] IN
        r.kind = "deploy" /\ r.pc = "resolved" =>
            \A task \in GoneFromCluster(r) :
                \E i \in DOMAIN r.calls :
                    /\ r.calls[i].op = "deleteService"
                    /\ r.calls[i].status = "ok"
                    /\ r.calls[i].id = task.taskId
                    /\ r.calls[i].cluster = task.ecsCluster
                    /\ i > 1
                    /\ IsScaleToZero(r.calls[i - 1])
                    /\ r.calls[i - 1].id = task.taskId
                    /\ r.calls[i - 1].cluster = task.ecsCluster

\* The timestamps of the records of a table with active = 1 for an environment.
ActiveSet(table, env) ==
    {t \in DOMAIN table :
        /\ table[t].deploymentTimestamp # 0
        /\ table[t].environment = env
        /\ table[t].active = 1}

\* C37: when a deploy or a rollback has rejected, whatever the step, the
\* records with active = 1 of its environment are those that had active = 1
\* when the run started.
RejectionLeavesActiveSet ==
    \A p \in Procs :
        LET r == run[p] IN
        r.kind \in {"deploy", "rollback"} /\ r.pc = "rejected" =>
            ActiveSet(store, r.environment) = ActiveSet(r.storeAtStart, r.environment)

\* The process ran a tick while another process ran a deploy or a rollback of
\* the same table.
RacedTicks == {p \in Procs : run[p].kind = "runCronJobs"}

\* C38: within one tick runTask is sent at most once for a job id of an
\* environment, also when a deploy or a rollback of that environment runs
\* during the tick.  (The jobs of the raced environment run in one cluster.)
TickDispatchesJobOnce ==
    \A p \in RacedTicks :
        \A i, j \in CallsOf(run[p], {"runTask"}) :
            run[p].calls[i].id = run[p].calls[j].id => i = j

Persisted(t) == store[t].deploymentTimestamp # 0

\* The record reached from t by following parentDeployment n times; 0 when a
\* record without parent was met on the way.
RECURSIVE Ancestor(_, _)
Ancestor(t, n) ==
    IF n = 0 THEN t
    ELSE IF store[t].parentDeployment = 0 THEN 0
    ELSE Ancestor(store[t].parentDeployment, n - 1)

\* C39: under single-writer use the parentDeployment of every persisted
\* record, when it has one, names a persisted record of the same environment
\* with a smaller deploymentTimestamp; following the parents from any record
\* ends at a record without parent; and the parent of the record a deploy has
\* put is the record that was active when the deploy started, none when there
\* was none.
ParentsAreWellFounded ==
    /\ \A t \in Timestamps :
          Persisted(t) /\ store[t].parentDeployment # 0 =>
              /\ store[t].parentDeployment \in Timestamps
              /\ Persisted(store[t].parentDeployment)
              /\ store[store[t].parentDeployment].environment = store[t].environment
              /\ store[t].parentDeployment < t
    /\ \A t \in Timestamps : Persisted(t) => Ancestor(t, MaxDeploys) = 0
    /\ \A p \in Procs :
          LET r == run[p] IN
          Finalized(r) =>
              ActiveSet(r.storeAtStart, r.environment) =
                  {store[r.deploymentTimestamp].parentDeployment} \ {0}

\* A deploy has put a record whose parent is the record that was active when
\* it started.
ParentsAreWellFoundedWitness ==
    \E p \in Procs :
        LET r == run[p] IN
        /\ Finalized(r) /\ r.pc = "resolved"
        /\ store[r.deploymentTimestamp].parentDeployment # 0
        /\ store[r.deploymentTimestamp].parentDeployment
              \in ActiveSet(r.storeAtStart, r.environment)

UnderWay(r) == r.kind \in {"deploy", "rollback"} /\ r.pc \notin {"resolved", "rejected"}

RunHasEnded(r) == r.kind \in {"deploy", "rollback"} /\ r.pc \in {"resolved", "rejected"}

\* C40: when every call that is sent calls back in the end, a deploy or a
\* rollback that is under way is resolved or rejected in the end, whatever job
\* run or stability wait fails on the way.
EveryRunEnds ==
    \A p \in Procs : UnderWay(run[p]) ~> RunHasEnded(run[p])

\* A deploy has resolved although a job run and a stability wait failed.
EveryRunEndsWitness ==
    \E p \in Procs :
        LET r == run[p] IN
        /\ r.kind = "deploy" /\ r.pc = "resolved"
        /\ FailedCallsOf(r, {"runTask"}) # {}
        /\ FailedCallsOf(r, {"waitForServicesStable"}) # {}

\* A rollback has ended: resolved, or rejected by a call that failed.
RollbackEndsWitness ==
    \E p \in Procs :
        LET r == run[p] IN
        /\ r.kind = "rollback" /\ r.pc = "rejected"
        /\ FailedCallsOf(r, {"update"}) # {}
====
